---------------------------- MODULE Spec2Model ----------------------------
(***************************************************************************)
(* A model of the estimation and item-selection core of catSurv:           *)
(* Estimator (src/src/Estimator.cpp) and MFIISelector                      *)
(* (src/catSurv/src/MFIISelector.cpp) over one QuestionSet.                *)
(*                                                                         *)
(* Numbers.  A double is modelled by an exact rational <<n, d>> (d > 0,    *)
(* lowest terms), with <<1, 0>> for +infinity.  exp is modelled by exact   *)
(* powers of two (the logit axis is measured in units of ln 2), so every   *)
(* logistic value is an exact rational; exp overflows to +infinity and     *)
(* underflows to 0 at the binary exponent limits of a double.  Arithmetic  *)
(* is exact: rounding in the last bits of a double is not modelled.        *)
(*                                                                         *)
(* Vectors.  A std::vector is a sequence; element i of the code is element *)
(* i + 1 of the sequence, and .at(i) throws std::out_of_range unless       *)
(* 0 <= i < size.                                                          *)
(*                                                                         *)
(* Calls.  Every function that can throw returns [err, val]: err is "none" *)
(* on a normal return and the exception's kind otherwise.                  *)
(***************************************************************************)
EXTENDS Integers, Sequences, FiniteSets, TLC

VARIABLES questionSet, prior, call, brent, computations

vars == <<questionSet, prior, call, brent, computations>>

---------------------------------------------------------------------------
(* Bounds of the model *)

\* number of items of the QuestionSet
NItems == 3

Items == 0 .. (NItems - 1)

---------------------------------------------------------------------------
(* Program constants *)

\* eps = (2^-52)^(1/3) = 1 / 165140.37...
EpsDen == 165140

\* 2^x is +infinity in a double from x = 1024 on
ExpOverflowArg == 1024

\* 2^x is 0 in a double from x = -1075 down
ExpUnderflowArg == -1075

\* R's missing-integer sentinel, INT_MIN
NA_INTEGER == (-2147483647) - 1

Models == {"ltm", "tpm", "grm", "gpcm"}

---------------------------------------------------------------------------
(* Exact rational arithmetic standing for double arithmetic *)

Abs(x) == IF x < 0 THEN -x ELSE x

RECURSIVE GCD(_, _)
GCD(a, b) == IF b = 0 THEN a ELSE GCD(b, a % b)

Rat(n, d) ==
    LET g == GCD(Abs(n), Abs(d))
        s == IF d < 0 THEN -1 ELSE 1
    IN  <<s * (n \div g), s * (d \div g)>>

Zero == <<0, 1>>
One == <<1, 1>>
Inf == <<1, 0>>
FromInt(i) == <<i, 1>>

\* The operations take their operands by value: each is a function on the
\* pairs, so that an operand is evaluated once however often it is used.
Double == Int \X Int

isinf(a) == a[2] = 0

neg[a \in Double] == <<-a[1], a[2]>>

RNeg(a) == neg[a]

plus[a \in Double, b \in Double] ==
    IF isinf(a) \/ isinf(b) THEN Inf
    ELSE LET g == GCD(a[2], b[2])
         IN  Rat(a[1] * (b[2] \div g) + b[1] * (a[2] \div g), (a[2] \div g) * b[2])

RAdd(a, b) == plus[a, b]

RSub(a, b) == plus[a, neg[b]]

times[a \in Double, b \in Double] ==
    LET g1 == GCD(Abs(a[1]), b[2])
        g2 == GCD(Abs(b[1]), a[2])
    IN  <<(a[1] \div g1) * (b[1] \div g2), (a[2] \div g2) * (b[2] \div g1)>>

RMul(a, b) == times[a, b]

inverse[a \in Double] == IF a[1] < 0 THEN <<-a[2], -a[1]>> ELSE <<a[2], a[1]>>

RInv(a) == inverse[a]

RDiv(a, b) == times[a, inverse[b]]

square[a \in Double] == times[a, a]

RSq(a) == square[a]

\* a < b, by the continued-fraction expansion (no cross product is formed)
RECURSIVE FracLess(_, _, _, _)
FracLess(n1, d1, n2, d2) ==
    LET q1 == n1 \div d1
        q2 == n2 \div d2
        r1 == n1 % d1
        r2 == n2 % d2
    IN  IF q1 # q2 THEN q1 < q2
        ELSE IF r2 = 0 THEN FALSE
        ELSE IF r1 = 0 THEN TRUE
        ELSE FracLess(d2, r2, d1, r1)

less[a \in Double, b \in Double] ==
    IF isinf(a) THEN FALSE
    ELSE IF isinf(b) THEN TRUE
    ELSE FracLess(a[1], a[2], b[1], b[2])

RLess(a, b) == less[a, b]

leq[a \in Double, b \in Double] == a = b \/ less[a, b]

RLeq(a, b) == leq[a, b]

RECURSIVE RSum(_)
RSum(s) == IF s = <<>> THEN Zero ELSE RAdd(RSum(SubSeq(s, 1, Len(s) - 1)), s[Len(s)])

eps == <<1, EpsDen>>
OneMinusEps == <<EpsDen - 1, EpsDen>>

\* exp, in powers of two
pow2[x \in Int] ==
    IF x >= ExpOverflowArg THEN Inf
    ELSE IF x <= ExpUnderflowArg THEN Zero
    ELSE IF x >= 0 THEN <<2 ^ x, 1>>
    ELSE <<1, 2 ^ (-x)>>

exp(x) == pow2[x]

---------------------------------------------------------------------------
(* Results of calls that may throw, and checked vector access *)

Ok(v) == [err |-> "none", val |-> v]
Throw(e) == [err |-> e, val |-> <<>>]
IsOk(r) == r.err = "none"

\* whether vec.at(i) returns (i is the index after conversion to size_t)
InRange(vec, i) == i >= 0 /\ i < Len(vec)
At(vec, i) == vec[i + 1]

---------------------------------------------------------------------------
(* Probability models *)

prob_ltm_unclamped(qs, theta, question) ==
    LET difficulty == At(At(qs.difficulty, question), 0)
        exp_prob_bi == exp(difficulty + At(qs.discrimination, question) * theta)
        guess == At(qs.guessing, question)
    IN  RAdd(guess, RMul(RSub(One, guess), RDiv(exp_prob_bi, RAdd(One, exp_prob_bi))))

prob_ltm(qs, theta, question) ==
    IF ~InRange(qs.difficulty, question) THEN Throw("out_of_range")
    ELSE IF ~InRange(At(qs.difficulty, question), 0) THEN Throw("out_of_range")
    ELSE IF ~InRange(qs.discrimination, question) THEN Throw("out_of_range")
    ELSE IF isinf(exp(At(At(qs.difficulty, question), 0)
                      + At(qs.discrimination, question) * theta))
         THEN Ok(OneMinusEps)
    ELSE IF ~InRange(qs.guessing, question) THEN Throw("out_of_range")
    ELSE LET result == prob_ltm_unclamped(qs, theta, question)
         IN  IF RLess(OneMinusEps, result) THEN Ok(OneMinusEps)
             ELSE IF RLess(result, eps) THEN Ok(eps)
             ELSE Ok(result)

\* calculate without the clamping into [eps, 1 - eps]
calculate_unclamped(discrimination, theta, difficulty) ==
    LET exp_prob == exp(difficulty - (discrimination * theta))
    IN  IF isinf(exp_prob) THEN One ELSE RDiv(exp_prob, RAdd(One, exp_prob))

\* the lambda calculate of prob_grm
calculate(discrimination, theta, difficulty) ==
    LET exp_prob == exp(difficulty - (discrimination * theta))
        r0 == IF isinf(exp_prob) THEN OneMinusEps
              ELSE RDiv(exp_prob, RAdd(One, exp_prob))
        r1 == IF RLess(OneMinusEps, r0) THEN OneMinusEps ELSE r0
    IN  IF RLess(r1, eps) THEN eps ELSE r1

\* std::adjacent_find(...) != end: two neighbours are equal
adjacent_find(v) == \E i \in 1 .. (Len(v) - 1) : v[i] = v[i + 1]

\* prob_grm without the closing 1.0 of the padded sequence
prob_grm_unpadded(qs, theta, question) ==
    IF ~InRange(qs.discrimination, question) THEN Throw("out_of_range")
    ELSE IF ~InRange(qs.difficulty, question) THEN Throw("out_of_range")
    ELSE LET discrimination == At(qs.discrimination, question)
             terms == At(qs.difficulty, question)
             probabilities ==
                 <<Zero>> \o [k \in 1 .. Len(terms) |->
                                 calculate(discrimination, theta, terms[k])]
         IN  IF adjacent_find(probabilities) THEN Throw("domain_error")
             ELSE Ok(probabilities)

\* prob_grm without the search for repeated elements
prob_grm_unchecked(qs, theta, question) ==
    IF ~InRange(qs.discrimination, question) THEN Throw("out_of_range")
    ELSE IF ~InRange(qs.difficulty, question) THEN Throw("out_of_range")
    ELSE Ok(<<Zero>> \o [k \in 1 .. Len(At(qs.difficulty, question)) |->
                            calculate(At(qs.discrimination, question), theta,
                                      At(qs.difficulty, question)[k])]
                     \o <<One>>)

prob_grm(qs, theta, question) ==
    IF ~InRange(qs.discrimination, question) THEN Throw("out_of_range")
    ELSE IF ~InRange(qs.difficulty, question) THEN Throw("out_of_range")
    ELSE LET discrimination == At(qs.discrimination, question)
             terms == At(qs.difficulty, question)
             probabilities ==
                 <<Zero>> \o [k \in 1 .. Len(terms) |->
                                 calculate(discrimination, theta, terms[k])]
                          \o <<One>>
         IN  IF adjacent_find(probabilities) THEN Throw("domain_error")
             ELSE Ok(probabilities)

\* the running sum of prob_gpcm after i categories
RECURSIVE gpcm_sum(_, _, _, _)
gpcm_sum(discrimination, theta, categoryparams, i) ==
    IF i = 0 THEN discrimination * theta
    ELSE gpcm_sum(discrimination, theta, categoryparams, i - 1)
         + discrimination * (theta - categoryparams[i])

prob_gpcm(qs, theta, question) ==
    IF ~InRange(qs.discrimination, question) THEN Throw("out_of_range")
    ELSE IF ~InRange(qs.difficulty, question) THEN Throw("out_of_range")
    ELSE LET discrimination == At(qs.discrimination, question)
             categoryparams == At(qs.difficulty, question)
             nums == [k \in 1 .. (Len(categoryparams) + 1) |->
                         exp(gpcm_sum(discrimination, theta, categoryparams, k - 1))]
             denominator == RSum(nums)
         IN  IF denominator = Zero \/ isinf(denominator) THEN Throw("domain_error")
             ELSE Ok([k \in 1 .. Len(nums) |-> RDiv(nums[k], denominator)])

\* probability reading the parameter vectors unchecked: only the guard on
\* the item id protects, and the id equal to the size reads past the end
probability_unchecked(qs, theta, question) ==
    IF question > Len(qs.answers) THEN Throw("domain_error")
    ELSE IF question = Len(qs.answers) THEN Ok(<<eps>>)
    ELSE IF qs.model = "grm" THEN prob_grm(qs, theta, question)
    ELSE IF qs.model = "gpcm" THEN prob_gpcm(qs, theta, question)
    ELSE LET p == prob_ltm(qs, theta, question)
         IN  IF IsOk(p) THEN Ok(<<p.val>>) ELSE p

probability(qs, theta, question) ==
    IF question > Len(qs.answers) THEN Throw("domain_error")
    ELSE IF qs.model = "grm" THEN prob_grm(qs, theta, question)
    ELSE IF qs.model = "gpcm" THEN prob_gpcm(qs, theta, question)
    ELSE IF qs.model = "ltm" \/ qs.model = "tpm"
         THEN LET p == prob_ltm(qs, theta, question)
              IN  IF IsOk(p) THEN Ok(<<p.val>>) ELSE p
    ELSE Ok(<<>>)

---------------------------------------------------------------------------
(* Integer and vector helpers of the likelihood and derivative code *)

\* a local of the code: v is computed once and Body continues with its value
Let(v, Body(_)) == CHOOSE r \in {Body(x) : x \in {v}} : TRUE

\* a call that may throw: its exception ends the caller, its value goes on
Try(r, Body(_)) == Let(r, LAMBDA x : IF IsOk(x) THEN Body(x.val) ELSE x)

\* the largest magnitude an integer keeps when it is converted to a double of
\* the model; only the missing-answer sentinel lies beyond it
DoubleModelRange == 65536

\* int -> double
ToDouble(a) ==
    IF a < -DoubleModelRange THEN <<-DoubleModelRange, 1>>
    ELSE IF a > DoubleModelRange THEN <<DoubleModelRange, 1>>
    ELSE <<a, 1>>

\* What a signed overflow does is undefined; ub is what the build makes of
\* it: "wrap" (two's complement) or "trap" (the process is stopped).
SignedOverflow == {"wrap", "trap"}

\* int a - 1
MinusOne(a, ub) ==
    IF a = NA_INTEGER
    THEN (IF ub = "wrap" THEN Ok(2147483647) ELSE Throw("trap"))
    ELSE Ok(a - 1)

\* int 1 - a
OneMinus(a, ub) ==
    IF a = NA_INTEGER
    THEN (IF ub = "wrap" THEN Ok(NA_INTEGER + 1) ELSE Throw("trap"))
    ELSE Ok(1 - a)

\* ((size_t) a) - 1 as an index: in range only from a = 1 on
SizeMinusOne(a) == IF a >= 1 THEN a - 1 ELSE -1

\* the first failure among the results of a loop, in loop order
FirstError(rs) ==
    rs[CHOOSE k \in 1 .. Len(rs) :
           ~IsOk(rs[k]) /\ \A j \in 1 .. (k - 1) : IsOk(rs[j])]

\* the values of a loop's iterations, or the exception that ended the loop
Collect(rs) ==
    Let(rs, LAMBDA v :
        IF \A k \in 1 .. Len(v) : IsOk(v[k])
        THEN Ok([k \in 1 .. Len(v) |-> v[k].val])
        ELSE Throw(FirstError(v).err))

\* double acc = 0; for (...) acc += term;
Accumulate(rs) == Try(Collect(rs), LAMBDA values : Ok(RSum(values)))

IsBinary(qs) == qs.model = "ltm" \/ qs.model = "tpm"

\* answers.at(q) of an applicable row, as a result
AnswerOf(qs, q) ==
    IF InRange(qs.answers, q) THEN Ok(At(qs.answers, q)) ELSE Throw("out_of_range")

\* the rows of the loop over applicable_rows, then the extra pair
Rows(qs) == Len(qs.applicable_rows)

---------------------------------------------------------------------------
(* Likelihood.  The code accumulates L in log space and returns exp(L); the *)
(* model keeps the terms of L: [c1, x1, c2, x2] is c1*log(x1) + c2*log(x2). *)

LogTerm(c1, x1, c2, x2) == [c1 |-> c1, x1 |-> x1, c2 |-> c2, x2 |-> x2]

\* log(cdf.at(a) - cdf.at(a - 1)), a converted to size_t
likelihood_grm_term(qs, theta, question, answer) ==
    Try(probability(qs, theta, question), LAMBDA question_cdf :
        IF ~InRange(question_cdf, answer) \/ ~InRange(question_cdf, answer - 1)
        THEN Throw("out_of_range")
        ELSE Ok(LogTerm(1, RSub(At(question_cdf, answer),
                                At(question_cdf, answer - 1)), 0, One)))

\* one applicable row: answers.at(q), then the term
likelihood_grm_row(qs, theta, question) ==
    Try(AnswerOf(qs, question), LAMBDA answer :
        likelihood_grm_term(qs, theta, question, answer))

likelihood_grm(qs, theta) ==
    Collect([k \in 1 .. Rows(qs) |->
                likelihood_grm_row(qs, theta, qs.applicable_rows[k])])

likelihood_grm_aug(qs, theta, question, answer) ==
    Collect([k \in 1 .. (Rows(qs) + 1) |->
                IF k <= Rows(qs)
                THEN likelihood_grm_row(qs, theta, qs.applicable_rows[k])
                ELSE likelihood_grm_term(qs, theta, question, answer)])

\* log(probs.at(index)) once the index is computed
likelihood_gpcm_at(probs, index) ==
    IF ~InRange(probs, index) THEN Throw("out_of_range")
    ELSE Ok(LogTerm(1, At(probs, index), 0, One))

\* the single-state overload computes answer -= 1 in int, after probability()
likelihood_gpcm_row(qs, theta, question, ub) ==
    Try(AnswerOf(qs, question), LAMBDA answer :
    Try(probability(qs, theta, question), LAMBDA probs :
    Try(MinusOne(answer, ub), LAMBDA index :
        likelihood_gpcm_at(probs, index))))

likelihood_gpcm(qs, theta, ub) ==
    Collect([k \in 1 .. Rows(qs) |->
                likelihood_gpcm_row(qs, theta, qs.applicable_rows[k], ub)])

\* the augmented overload computes ((size_t) answer) - 1, which cannot overflow
likelihood_gpcm_term_aug(qs, theta, question, answer) ==
    Try(probability(qs, theta, question), LAMBDA probs :
        likelihood_gpcm_at(probs, SizeMinusOne(answer)))

likelihood_gpcm_row_aug(qs, theta, question) ==
    Try(AnswerOf(qs, question), LAMBDA a :
        likelihood_gpcm_term_aug(qs, theta, question, a))

likelihood_gpcm_aug(qs, theta, question, answer) ==
    Collect([k \in 1 .. (Rows(qs) + 1) |->
                IF k <= Rows(qs)
                THEN likelihood_gpcm_row_aug(qs, theta, qs.applicable_rows[k])
                ELSE likelihood_gpcm_term_aug(qs, theta, question, answer)])

\* (this_answer * log(prob)) + ((1 - this_answer) * log(1 - prob))
likelihood_ltm_at(prob, this_answer, ub) ==
    Try(OneMinus(this_answer, ub), LAMBDA one_minus :
        Ok(LogTerm(this_answer, prob, one_minus, RSub(One, prob))))

\* one applicable row: prob_ltm, answers.at(index), then the term
likelihood_ltm_row(qs, theta, question, ub) ==
    Try(prob_ltm(qs, theta, question), LAMBDA prob :
    Try(AnswerOf(qs, question), LAMBDA this_answer :
        likelihood_ltm_at(prob, this_answer, ub)))

likelihood_ltm_term(qs, theta, question, answer, ub) ==
    Try(prob_ltm(qs, theta, question), LAMBDA prob :
        likelihood_ltm_at(prob, answer, ub))

likelihood_ltm(qs, theta, ub) ==
    Collect([k \in 1 .. Rows(qs) |->
                likelihood_ltm_row(qs, theta, qs.applicable_rows[k], ub)])

likelihood_ltm_aug(qs, theta, question, answer, ub) ==
    Collect([k \in 1 .. (Rows(qs) + 1) |->
                IF k <= Rows(qs)
                THEN likelihood_ltm_row(qs, theta, qs.applicable_rows[k], ub)
                ELSE likelihood_ltm_term(qs, theta, question, answer, ub)])

\* exp(L) of the terms of L
ExpOf(r) == Try(r, LAMBDA L : Ok([exp_of |-> L]))

\* an unknown model tag leaves likelihood = 0.0
likelihood(qs, theta, ub) ==
    IF IsBinary(qs) THEN ExpOf(likelihood_ltm(qs, theta, ub))
    ELSE IF qs.model = "grm" THEN ExpOf(likelihood_grm(qs, theta))
    ELSE IF qs.model = "gpcm" THEN ExpOf(likelihood_gpcm(qs, theta, ub))
    ELSE Ok(Zero)

\* the augmented likelihood without the factor of the (question, answer) pair
likelihood_aug_state_only(qs, theta, question, answer, ub) ==
    likelihood(qs, theta, ub)

likelihood_aug(qs, theta, question, answer, ub) ==
    IF IsBinary(qs) THEN ExpOf(likelihood_ltm_aug(qs, theta, question, answer, ub))
    ELSE IF qs.model = "grm" THEN ExpOf(likelihood_grm_aug(qs, theta, question, answer))
    ELSE IF qs.model = "gpcm" THEN ExpOf(likelihood_gpcm_aug(qs, theta, question, answer))
    ELSE Ok(Zero)

---------------------------------------------------------------------------
(* Derivatives of the gpcm category probabilities *)

\* the vectors f (exp of the running sum) and x (discrimination * (i + 1))
\* that both derivative functions build first
gpcm_f_x(qs, theta, question) ==
    [f |-> [i \in 1 .. (Len(At(qs.difficulty, question)) + 1) |->
               exp(gpcm_sum(At(qs.discrimination, question), theta,
                            At(qs.difficulty, question), i - 1))],
     x |-> [i \in 1 .. (Len(At(qs.difficulty, question)) + 1) |->
               FromInt(At(qs.discrimination, question) * i)]]

\* g, g_prime and g_primeprime
gpcm_g(fx) ==
    [g |-> RSum(fx.f),
     g_prime |-> RSum([i \in 1 .. Len(fx.f) |-> RMul(fx.f[i], fx.x[i])]),
     g_primeprime |-> RSum([i \in 1 .. Len(fx.f) |->
                               RMul(RMul(fx.f[i], fx.x[i]), fx.x[i])])]

\* a = g * f_prime.at(i) - f.at(i) * g_prime
gpcm_a(f, x, t) == RSub(RMul(t.g, RMul(f, x)), RMul(f, t.g_prime))

\* (b * a_prime - a * b_prime) / b2
gpcm_second(f, x, t) ==
    LET b == RMul(t.g, t.g)
        b_prime == RMul(RMul(<<2, 1>>, t.g), t.g_prime)
        a_prime == RSub(RMul(RMul(RMul(f, x), x), t.g), RMul(t.g_primeprime, f))
    IN  RDiv(RSub(RMul(b, a_prime), RMul(gpcm_a(f, x, t), b_prime)), RMul(b, b))

prob_derivs_gpcm_first(qs, theta, question) ==
    Let(gpcm_f_x(qs, theta, question), LAMBDA fx :
    Let(gpcm_g(fx), LAMBDA t :
        [i \in 1 .. Len(fx.f) |->
            RDiv(gpcm_a(fx.f[i], fx.x[i], t), RMul(t.g, t.g))]))

\* the vectors first and second that prob_derivs_gpcm fills
prob_derivs_gpcm(qs, theta, question) ==
    Let(gpcm_f_x(qs, theta, question), LAMBDA fx :
    Let(gpcm_g(fx), LAMBDA t :
        [first |-> [i \in 1 .. Len(fx.f) |->
                       RDiv(gpcm_a(fx.f[i], fx.x[i], t), RMul(t.g, t.g))],
         second |-> [i \in 1 .. Len(fx.f) |-> gpcm_second(fx.f[i], fx.x[i], t)]]))

---------------------------------------------------------------------------
(* Second derivatives of the log-likelihood *)

\* first_term - second_term of grm_partial_d2LL
grm_partial_d2LL_of(P_star1, P_star2) ==
    LET P == RSub(P_star1, P_star2)
        Q_star1 == RSub(One, P_star1)
        Q_star2 == RSub(One, P_star2)
        w2 == RMul(P_star2, Q_star2)
        w1 == RMul(P_star1, Q_star1)
        first_term == RDiv(RAdd(RMul(RNeg(w2), RSub(Q_star2, P_star2)),
                                RMul(w1, RSub(Q_star1, P_star1))), P)
        second_term == RDiv(RSq(RSub(w1, w2)), RSq(P))
    IN  RSub(first_term, second_term)

\* the body shared by both grm_partial_d2LL overloads once the index is known
grm_partial_d2LL_at(qs, theta, question, answer_k) ==
    Try(probability(qs, theta, question), LAMBDA probabilities :
        IF ~InRange(probabilities, answer_k) \/ ~InRange(probabilities, answer_k - 1)
        THEN Throw("out_of_range")
        ELSE Ok(grm_partial_d2LL_of(At(probabilities, answer_k),
                                    At(probabilities, answer_k - 1))))

grm_partial_d2LL(qs, theta, question) ==
    Try(AnswerOf(qs, question), LAMBDA answer_k :
        grm_partial_d2LL_at(qs, theta, question, answer_k))

grm_partial_d2LL_aug(qs, theta, question, answer) ==
    grm_partial_d2LL_at(qs, theta, question, answer)

\* - ((pow(p_prime, 2.0) / pow(p, 2.0)) - (p_primeprime / p))
gpcm_partial_d2LL_of(p, p_prime, p_primeprime) ==
    RNeg(RSub(RDiv(RSq(p_prime), RSq(p)), RDiv(p_primeprime, p)))

\* the body of both gpcm_partial_d2LL overloads from int index = answer - 1 on
gpcm_partial_d2LL_at(qs, theta, question, answer, ub) ==
    Try(MinusOne(answer, ub), LAMBDA index :
    Try(probability(qs, theta, question), LAMBDA probs :
    Let(prob_derivs_gpcm(qs, theta, question), LAMBDA derivs :
        IF ~InRange(probs, index) THEN Throw("out_of_range")
        ELSE Ok(gpcm_partial_d2LL_of(At(probs, index), At(derivs.first, index),
                                     At(derivs.second, index))))))

gpcm_partial_d2LL(qs, theta, question, ub) ==
    Try(AnswerOf(qs, question), LAMBDA answer :
        gpcm_partial_d2LL_at(qs, theta, question, answer, ub))

gpcm_partial_d2LL_aug(qs, theta, question, answer, ub) ==
    gpcm_partial_d2LL_at(qs, theta, question, answer, ub)

\* the body of both gpcm_partial_d1LL overloads from int index = answer - 1 on
gpcm_partial_d1LL_at(qs, theta, question, answer, ub) ==
    Try(MinusOne(answer, ub), LAMBDA index :
    Try(probability(qs, theta, question), LAMBDA probs :
    Let(prob_derivs_gpcm_first(qs, theta, question), LAMBDA probs_1d :
        IF ~InRange(probs, index) THEN Throw("out_of_range")
        ELSE Ok(RDiv(At(probs_1d, index), At(probs, index))))))

gpcm_partial_d1LL(qs, theta, question, ub) ==
    Try(AnswerOf(qs, question), LAMBDA answer :
        gpcm_partial_d1LL_at(qs, theta, question, answer, ub))

gpcm_partial_d1LL_aug(qs, theta, question, answer, ub) ==
    gpcm_partial_d1LL_at(qs, theta, question, answer, ub)

gpcm_d2LL(qs, theta, ub) ==
    Accumulate([k \in 1 .. Rows(qs) |->
                   gpcm_partial_d2LL(qs, theta, qs.applicable_rows[k], ub)])

\* one applicable row of the augmented loop: a = answers.at(q), then the term
gpcm_d2LL_row_aug(qs, theta, q, ub) ==
    Try(AnswerOf(qs, q), LAMBDA a : gpcm_partial_d2LL_aug(qs, theta, q, a, ub))

gpcm_d2LL_aug(qs, theta, question, answer, ub) ==
    Accumulate([k \in 1 .. (Rows(qs) + 1) |->
                   IF k <= Rows(qs)
                   THEN gpcm_d2LL_row_aug(qs, theta, qs.applicable_rows[k], ub)
                   ELSE gpcm_partial_d2LL_aug(qs, theta, question, answer, ub)])

\* discrimination.at(q)
DiscriminationOf(qs, q) ==
    IF InRange(qs.discrimination, q) THEN Ok(FromInt(At(qs.discrimination, q)))
    ELSE Throw("out_of_range")

\* pow(discrimination.at(q), 2.0) * second_derivative
grm_d2LL_row(qs, theta, question) ==
    Try(DiscriminationOf(qs, question), LAMBDA discrimination :
    Try(grm_partial_d2LL(qs, theta, question), LAMBDA second_derivative :
        Ok(RMul(RSq(discrimination), second_derivative))))

grm_d2LL(qs, theta) ==
    Accumulate([k \in 1 .. Rows(qs) |->
                   grm_d2LL_row(qs, theta, qs.applicable_rows[k])])

grm_d2LL_term_aug(qs, theta, question, answer) ==
    Try(DiscriminationOf(qs, question), LAMBDA discrimination :
    Try(grm_partial_d2LL_aug(qs, theta, question, answer), LAMBDA second_derivative :
        Ok(RMul(RSq(discrimination), second_derivative))))

grm_d2LL_row_aug(qs, theta, q) ==
    Try(DiscriminationOf(qs, q), LAMBDA discrimination :
    Try(AnswerOf(qs, q), LAMBDA a :
    Try(grm_partial_d2LL_aug(qs, theta, q, a), LAMBDA second_derivative :
        Ok(RMul(RSq(discrimination), second_derivative)))))

grm_d2LL_aug(qs, theta, question, answer) ==
    Accumulate([k \in 1 .. (Rows(qs) + 1) |->
                   IF k <= Rows(qs)
                   THEN grm_d2LL_row_aug(qs, theta, qs.applicable_rows[k])
                   ELSE grm_d2LL_term_aug(qs, theta, question, answer)])

\* lambda_temp = (P - guess) / (1.0 - guess)
lambda_temp_of(P, guess) == RDiv(RSub(P, guess), RSub(One, guess))

\* one item's share of lambda_theta; the answer plays no part in it.  The
\* single-state overload groups it pow(d, 2) * pow(lambda_temp, 2) * (Q / P).
ltm_d2LL_term(qs, theta, question) ==
    Try(prob_ltm(qs, theta, question), LAMBDA P :
        Ok(RMul(RMul(RSq(FromInt(At(qs.discrimination, question))),
                     RSq(lambda_temp_of(P, At(qs.guessing, question)))),
                RDiv(RSub(One, P), P))))

\* the augmented overload groups it pow(d * lambda_temp, 2) * (Q / P)
ltm_d2LL_term_aug(qs, theta, question) ==
    Try(prob_ltm(qs, theta, question), LAMBDA P :
        Ok(RMul(RSq(RMul(FromInt(At(qs.discrimination, question)),
                         lambda_temp_of(P, At(qs.guessing, question)))),
                RDiv(RSub(One, P), P))))

Negate(r) == Try(r, LAMBDA v : Ok(RNeg(v)))

ltm_d2LL(qs, theta) ==
    Negate(Accumulate([k \in 1 .. Rows(qs) |->
                          ltm_d2LL_term(qs, theta, qs.applicable_rows[k])]))

\* the answer of the extra pair is not read
ltm_d2LL_aug(qs, theta, question, answer) ==
    Negate(Accumulate([k \in 1 .. (Rows(qs) + 1) |->
                          ltm_d2LL_term_aug(qs, theta,
                              IF k <= Rows(qs) THEN qs.applicable_rows[k]
                              ELSE question)]))

---------------------------------------------------------------------------
(* First derivatives of the log-likelihood *)

gpcm_d1LL(qs, theta, ub) ==
    Accumulate([k \in 1 .. Rows(qs) |->
                   gpcm_partial_d1LL(qs, theta, qs.applicable_rows[k], ub)])

gpcm_d1LL_row_aug(qs, theta, q, ub) ==
    Try(AnswerOf(qs, q), LAMBDA a : gpcm_partial_d1LL_aug(qs, theta, q, a, ub))

gpcm_d1LL_aug(qs, theta, question, answer, ub) ==
    Accumulate([k \in 1 .. (Rows(qs) + 1) |->
                   IF k <= Rows(qs)
                   THEN gpcm_d1LL_row_aug(qs, theta, qs.applicable_rows[k], ub)
                   ELSE gpcm_partial_d1LL_aug(qs, theta, question, answer, ub)])

\* -1 * discrimination * ((w1 - w2) / P)
grm_d1LL_of(discrimination, P_star1, P_star2) ==
    LET Q_star1 == RSub(One, P_star1)
        Q_star2 == RSub(One, P_star2)
        P == RSub(P_star1, P_star2)
        w2 == RMul(P_star2, Q_star2)
        w1 == RMul(P_star1, Q_star1)
    IN  RMul(FromInt(-1 * discrimination), RDiv(RSub(w1, w2), P))

\* one item answered answer_k: probability(), the two boundary values, the term
grm_d1LL_term(qs, theta, question, answer_k) ==
    Try(probability(qs, theta, question), LAMBDA probabilities :
        IF ~InRange(probabilities, answer_k) \/ ~InRange(probabilities, answer_k - 1)
        THEN Throw("out_of_range")
        ELSE Ok(grm_d1LL_of(At(qs.discrimination, question),
                            At(probabilities, answer_k),
                            At(probabilities, answer_k - 1))))

grm_d1LL_row(qs, theta, question) ==
    Try(AnswerOf(qs, question), LAMBDA answer_k :
        grm_d1LL_term(qs, theta, question, answer_k))

grm_d1LL(qs, theta) ==
    Accumulate([k \in 1 .. Rows(qs) |->
                   grm_d1LL_row(qs, theta, qs.applicable_rows[k])])

grm_d1LL_aug(qs, theta, question, answer) ==
    Accumulate([k \in 1 .. (Rows(qs) + 1) |->
                   IF k <= Rows(qs)
                   THEN grm_d1LL_row(qs, theta, qs.applicable_rows[k])
                   ELSE grm_d1LL_term(qs, theta, question, answer)])

\* discrimination * ((P - guess) / (P * (1 - guess))) * (answer - P), the
\* answer converted to double
ltm_d1LL_of(discrimination, P, guess, answer) ==
    RMul(RMul(FromInt(discrimination),
              RDiv(RSub(P, guess), RMul(P, RSub(One, guess)))),
         RSub(ToDouble(answer), P))

ltm_d1LL_term(qs, theta, question, answer) ==
    Try(prob_ltm(qs, theta, question), LAMBDA P :
        Ok(ltm_d1LL_of(At(qs.discrimination, question), P,
                       At(qs.guessing, question), answer)))

\* one applicable row: prob_ltm, guessing.at, answers.at, then the term
ltm_d1LL_row(qs, theta, question) ==
    Try(prob_ltm(qs, theta, question), LAMBDA P :
    Try(AnswerOf(qs, question), LAMBDA answer :
        Ok(ltm_d1LL_of(At(qs.discrimination, question), P,
                       At(qs.guessing, question), answer))))

ltm_d1LL(qs, theta) ==
    Accumulate([k \in 1 .. Rows(qs) |->
                   ltm_d1LL_row(qs, theta, qs.applicable_rows[k])])

ltm_d1LL_aug(qs, theta, question, answer) ==
    Accumulate([k \in 1 .. (Rows(qs) + 1) |->
                   IF k <= Rows(qs)
                   THEN ltm_d1LL_row(qs, theta, qs.applicable_rows[k])
                   ELSE ltm_d1LL_term(qs, theta, question, answer)])

\* (theta - prior.param0()) / pow(prior.param1(), 2.0)
d1LL_prior_shift(theta, pr) == Rat(theta - pr.param0, pr.param1 * pr.param1)

\* 1.0 / pow(prior.param1(), 2.0)
d2LL_prior_shift(pr) == Rat(1, pr.param1 * pr.param1)

\* use_prior ? value - prior_shift : value
WithPrior(r, use_prior, prior_shift) ==
    Try(r, LAMBDA value : Ok(IF use_prior THEN RSub(value, prior_shift) ELSE value))

d1LL(qs, theta, use_prior, pr, ub) ==
    IF qs.applicable_rows = <<>> THEN Ok(d1LL_prior_shift(theta, pr))
    ELSE WithPrior(IF IsBinary(qs) THEN ltm_d1LL(qs, theta)
                   ELSE IF qs.model = "grm" THEN grm_d1LL(qs, theta)
                   ELSE IF qs.model = "gpcm" THEN gpcm_d1LL(qs, theta, ub)
                   ELSE Ok(Zero),
                   use_prior, d1LL_prior_shift(theta, pr))

d1LL_aug(qs, theta, use_prior, pr, question, answer, ub) ==
    WithPrior(IF IsBinary(qs) THEN ltm_d1LL_aug(qs, theta, question, answer)
              ELSE IF qs.model = "grm" THEN grm_d1LL_aug(qs, theta, question, answer)
              ELSE IF qs.model = "gpcm" THEN gpcm_d1LL_aug(qs, theta, question, answer, ub)
              ELSE Ok(Zero),
              use_prior, d1LL_prior_shift(theta, pr))

d2LL(qs, theta, use_prior, pr, ub) ==
    IF qs.applicable_rows = <<>> THEN Ok(RNeg(d2LL_prior_shift(pr)))
    ELSE WithPrior(IF IsBinary(qs) THEN ltm_d2LL(qs, theta)
                   ELSE IF qs.model = "grm" THEN grm_d2LL(qs, theta)
                   ELSE IF qs.model = "gpcm" THEN gpcm_d2LL(qs, theta, ub)
                   ELSE Ok(Zero),
                   use_prior, d2LL_prior_shift(pr))

d2LL_aug(qs, theta, use_prior, pr, question, answer, ub) ==
    WithPrior(IF IsBinary(qs) THEN ltm_d2LL_aug(qs, theta, question, answer)
              ELSE IF qs.model = "grm" THEN grm_d2LL_aug(qs, theta, question, answer)
              ELSE IF qs.model = "gpcm" THEN gpcm_d2LL_aug(qs, theta, question, answer, ub)
              ELSE Ok(Zero),
              use_prior, d2LL_prior_shift(pr))

---------------------------------------------------------------------------
(* Observed and Fisher information of one item *)

\* pow(discrimination, 2.0) * temp * (Q / P) of the binary models
obsInf_ltm(qs, theta, item) ==
    IF ~InRange(qs.guessing, item) THEN Throw("out_of_range")
    ELSE Try(prob_ltm(qs, theta, item), LAMBDA P :
             Ok(RMul(RMul(RSq(FromInt(At(qs.discrimination, item))),
                          RSq(lambda_temp_of(P, At(qs.guessing, item)))),
                     RDiv(RSub(One, P), P))))

obsInf(qs, theta, item, ub) ==
    Try(DiscriminationOf(qs, item), LAMBDA discrimination :
        IF qs.model = "grm"
        THEN Try(grm_partial_d2LL(qs, theta, item), LAMBDA d2 :
                 Ok(RMul(RNeg(RSq(discrimination)), d2)))
        ELSE IF qs.model = "gpcm"
        THEN Negate(gpcm_partial_d2LL(qs, theta, item, ub))
        ELSE obsInf_ltm(qs, theta, item))

obsInf_aug(qs, theta, item, answer, ub) ==
    Try(DiscriminationOf(qs, item), LAMBDA discrimination :
        IF qs.model = "grm"
        THEN Try(grm_partial_d2LL_aug(qs, theta, item, answer), LAMBDA d2 :
                 Ok(RMul(RNeg(RSq(discrimination)), d2)))
        ELSE IF qs.model = "gpcm"
        THEN Negate(gpcm_partial_d2LL_aug(qs, theta, item, answer, ub))
        ELSE obsInf_ltm(qs, theta, item))

\* discrimination_squared * (pow(w1 - w2, 2.0) / (P_star1 - P_star2))
fisherInf_grm_of(discrimination_squared, P_star1, P_star2) ==
    LET w1 == RMul(P_star1, RSub(One, P_star1))
        w2 == RMul(P_star2, RSub(One, P_star2))
    IN  RMul(discrimination_squared, RDiv(RSq(RSub(w1, w2)), RSub(P_star1, P_star2)))

\* the grm loop of fisherInf over i = 1 .. difficulty.at(item).size() + 1
fisherInf_grm(qs, item, probabilities) ==
    RSum([i \in 1 .. (Len(At(qs.difficulty, item)) + 1) |->
            fisherInf_grm_of(RSq(FromInt(At(qs.discrimination, item))),
                             At(probabilities, i), At(probabilities, i - 1))])

\* the gpcm loop of fisherInf over the categories
fisherInf_gpcm(qs, theta, item, probabilities) ==
    Let(prob_derivs_gpcm(qs, theta, item), LAMBDA derivs :
        RSum([i \in 1 .. Len(probabilities) |->
                RSub(RDiv(RSq(derivs.first[i]), probabilities[i]),
                     derivs.second[i])]))

\* what both fisherInf overloads do for the polytomous models
fisherInf_poly(qs, theta, item) ==
    Try(probability(qs, theta, item), LAMBDA probabilities :
        IF ~InRange(qs.discrimination, item) THEN Throw("out_of_range")
        ELSE IF qs.model = "grm" THEN Ok(fisherInf_grm(qs, item, probabilities))
        ELSE IF qs.model = "gpcm"
             THEN Ok(fisherInf_gpcm(qs, theta, item, probabilities))
        ELSE Ok(Zero))

fisherInf(qs, theta, item, ub) ==
    IF IsBinary(qs) THEN obsInf(qs, theta, item, ub)
    ELSE fisherInf_poly(qs, theta, item)

fisherInf_aug(qs, theta, item, answer, ub) ==
    IF IsBinary(qs) THEN obsInf_aug(qs, theta, item, answer, ub)
    ELSE fisherInf_poly(qs, theta, item)

---------------------------------------------------------------------------
(* QuestionSet and Prior as the external loader builds them.  The item     *)
(* parameters are inputs: small integer grids, by item id.  The "mild"     *)
(* grid keeps every logit within a few units except for one steep item per *)
(* polytomous model; the "wide" grid adds logits beyond the clamping and   *)
(* overflow thresholds.                                                    *)

ItemDiscrimination(grid, model, i) ==
    IF grid = "wide" THEN (IF i % 3 = 2 THEN 1100 ELSE 1)
    ELSE IF model = "grm" THEN (IF i % 3 = 2 THEN 20 ELSE 1)
    ELSE IF model = "gpcm" THEN (IF i % 3 = 2 THEN 1100 ELSE 1)
    ELSE 1 + (i % 2)

ItemDifficulty(grid, model, i) ==
    IF model = "grm" THEN (IF i % 3 = 0 THEN <<0>> ELSE <<-1, 1>>)
    ELSE IF model = "gpcm"
         THEN IF grid = "wide"
              THEN (IF i % 3 = 0 THEN <<-1, 1>> ELSE IF i % 3 = 1 THEN <<-18>> ELSE <<1>>)
              ELSE (IF i % 3 = 0 THEN <<0>> ELSE IF i % 3 = 1 THEN <<-1, 1>> ELSE <<0, 0>>)
    ELSE <<(i % 3) - 1>>

ItemGuessing(model, i) ==
    IF model = "tpm" /\ i % 2 = 1 THEN <<1, 4>> ELSE Zero

\* thetas at which the probability models are evaluated on the wide grid
ProbThetas(model) ==
    IF model = "gpcm" THEN {-1100, -1, 0, 1, 1100}
    ELSE {-1100, -20, -1, 0, 1, 20, 1100}

\* thetas at which likelihoods, derivatives and information are evaluated
Thetas == {-1, 0, 1}

Priors == {[param0 |-> 0, param1 |-> 1], [param0 |-> 1, param1 |-> 2]}

\* the ascending sequence of the elements of a set of item ids
RECURSIVE SortedSeq(_)
SortedSeq(S) ==
    IF S = {} THEN <<>>
    ELSE LET m == CHOOSE x \in S : \A y \in S : x <= y
         IN  <<m>> \o SortedSeq(S \ {m})

\* number of answer categories of an item
NCategories(model, difficulty) ==
    IF model = "ltm" \/ model = "tpm" THEN 2 ELSE Len(difficulty) + 1

\* the valid answers of an item: 0, 1 when binary, 1 .. #categories otherwise
ValidAnswers(model, difficulty) ==
    IF model = "ltm" \/ model = "tpm" THEN {0, 1}
    ELSE 1 .. NCategories(model, difficulty)

\* answers: Items -> recorded answer or NA_INTEGER; an item is applicable
\* exactly when it has a recorded answer
MakeQuestionSet(grid, model, ans) ==
    [model |-> model,
     discrimination |-> [k \in 1 .. NItems |-> ItemDiscrimination(grid, model, k - 1)],
     difficulty |-> [k \in 1 .. NItems |-> ItemDifficulty(grid, model, k - 1)],
     guessing |-> [k \in 1 .. NItems |-> ItemGuessing(model, k - 1)],
     answers |-> [k \in 1 .. NItems |-> ans[k - 1]],
     applicable_rows |-> SortedSeq({i \in Items : ans[i] # NA_INTEGER}),
     nonapplicable_rows |-> SortedSeq({i \in Items : ans[i] = NA_INTEGER}),
     question_names |-> [k \in 1 .. NItems |-> <<"Q", k - 1>>],
     z |-> <<2>>]

\* the record kept of the last call; ub is the build's behaviour on signed overflow
Call(op, ub, theta, item, answer, use_prior, pre, result) ==
    [op |-> op, ub |-> ub, theta |-> theta, item |-> item, answer |-> answer,
     use_prior |-> use_prior, pre |-> pre, result |-> result]

Snapshot(qs) == [applicable_rows |-> qs.applicable_rows, answers |-> qs.answers]

NoCall == Call("none", "wrap", 0, 0, 0, FALSE, <<>>, Ok(<<>>))

\* the locals of brentMethod and the solver handle s; no call in progress
NoBrent ==
    [pc |-> "idle", function |-> "total", iter |-> 0, status |-> "unset", r |-> 0,
     x_lo |-> 0, x_hi |-> 0, root |-> 0, handle |-> "none", releases |-> 0,
     outcome |-> "none", result |-> 0]

\* the callers that may run expectedPV / expectedObsInf on one QuestionSet
Threads == {1, 2}

\* a caller with no computation in progress
NoComputation ==
    [pc |-> "idle", kind |-> "none", item |-> 0, turn |-> 0, cleaned |-> 0,
     pre |-> <<>>, wrote |-> NA_INTEGER, seen |-> <<>>, serialized |-> TRUE,
     outcome |-> "none"]

NoComputations == [t \in Threads |-> NoComputation]

---------------------------------------------------------------------------
(* Point estimate, standard error and quadrature.  Their code is outside   *)
(* the translated sources; they are modelled from the specification:       *)
(* the estimate is the root of the prior-regularised first derivative in   *)
(* a fixed bracket, the standard error the inverse square root of the      *)
(* test information at the estimate, the integrator a fixed-count rule.    *)

abs[a \in Double] == IF a[1] < 0 THEN neg[a] ELSE a

RAbs(a) == abs[a]

\* the bracket of the root finder, in ascending order
ThetaBracket == SortedSeq(Thetas)

\* the index of the least of the magnitudes, the lowest such index on a tie
LeastIndex(m) ==
    CHOOSE k \in 1 .. Len(m) :
        /\ \A j \in 1 .. Len(m) : RLeq(m[k], m[j])
        /\ \A j \in 1 .. (k - 1) : RLess(m[k], m[j])

\* the point of the bracket where |f| is least; an exception of f ends the search
RootOf(fs) ==
    Try(Collect(fs), LAMBDA f :
        Ok(ThetaBracket[LeastIndex([k \in 1 .. Len(f) |-> RAbs(f[k])])]))

estimateTheta(qs, pr, ub) ==
    RootOf([k \in 1 .. Len(ThetaBracket) |->
               d1LL(qs, ThetaBracket[k], TRUE, pr, ub)])

estimateTheta_aug(qs, pr, question, answer, ub) ==
    RootOf([k \in 1 .. Len(ThetaBracket) |->
               d1LL_aug(qs, ThetaBracket[k], TRUE, pr, question, answer, ub)])

fisherTestInfo(qs, pr, ub) ==
    Try(estimateTheta(qs, pr, ub), LAMBDA theta :
        Accumulate([k \in 1 .. Rows(qs) |->
                       fisherInf(qs, theta, qs.applicable_rows[k], ub)]))

\* one applicable row of the augmented loop: a = answers.at(item), then fisherInf
fisherTestInfo_row_aug(qs, theta, item, ub) ==
    Try(AnswerOf(qs, item), LAMBDA a : fisherInf_aug(qs, theta, item, a, ub))

fisherTestInfo_aug(qs, pr, question, answer, ub) ==
    Try(estimateTheta_aug(qs, pr, question, answer, ub), LAMBDA theta :
        Accumulate([k \in 1 .. (Rows(qs) + 1) |->
                       IF k <= Rows(qs)
                       THEN fisherTestInfo_row_aug(qs, theta, qs.applicable_rows[k], ub)
                       ELSE fisherInf_aug(qs, theta, question, answer, ub)]))

\* pow(estimateSE(prior), 2.0): the inverse of the test information
estimateSE_pow2(qs, pr, ub) ==
    Try(fisherTestInfo(qs, pr, ub), LAMBDA info : Ok(RInv(info)))

\* the denominator of the grid on which square roots are rounded down
SqrtDen == 16

\* the largest root numerator the search considers
SqrtTop == 32768

RECURSIVE SqrtSearch(_, _, _)
SqrtSearch(x, lo, hi) ==
    IF hi - lo <= 1 THEN lo
    ELSE IF RLeq(Rat(((lo + hi) \div 2) * ((lo + hi) \div 2), SqrtDen * SqrtDen), x)
         THEN SqrtSearch(x, (lo + hi) \div 2, hi)
         ELSE SqrtSearch(x, lo, (lo + hi) \div 2)

\* pow(x, 0.5), rounded down to a multiple of 1 / SqrtDen
sqrt(x) ==
    IF isinf(x) THEN Inf
    ELSE IF RLeq(x, Zero) THEN Zero
    ELSE Rat(SqrtSearch(x, 0, SqrtTop), SqrtDen)

\* the integrator with one subinterval is the midpoint rule: this is the
\* abscissa at which it evaluates the function, also on an interval of no
\* width (the truncation is exact for the windows of fii, centred on an
\* integer estimate)
integrate_selectItem_node(lower, upper) ==
    RDiv(RAdd(lower, upper), <<2, 1>>)[1] \div RDiv(RAdd(lower, upper), <<2, 1>>)[2]

\* the integral, given what the function returned at the abscissa; an
\* exception of the function passes through
integrate_selectItem(function_at_node, lower, upper) ==
    Try(function_at_node, LAMBDA value : Ok(RMul(RSub(upper, lower), value)))

\* fii once delta and the estimate are known
fii_window(qs, item, ub, lower, upper) ==
    integrate_selectItem(
        fisherInf(qs, integrate_selectItem_node(lower, upper), item, ub),
        lower, upper)

fii(qs, item, pr, ub) ==
    Try(fisherTestInfo(qs, pr, ub), LAMBDA info :
    Let(RMul(FromInt(At(qs.z, 0)), sqrt(info)), LAMBDA delta :
    Try(estimateTheta(qs, pr, ub), LAMBDA theta :
        fii_window(qs, item, ub, RSub(FromInt(theta), delta),
                   RAdd(FromInt(theta), delta)))))

---------------------------------------------------------------------------
(* The operations that commit a hypothetical answer to the QuestionSet.    *)
(* Each yields the QuestionSet it leaves behind and what the caller gets;  *)
(* an exception leaves the QuestionSet as it was at the throw.             *)

Outcome(qs, result) == [qs |-> qs, result |-> result]

\* the item put in front of the rows instead of behind them
push_front(qs, item) == [qs EXCEPT !.applicable_rows = <<item>> \o @]

\* questionSet.applicable_rows.push_back(item)
push_back(qs, item) == [qs EXCEPT !.applicable_rows = Append(@, item)]

\* questionSet.applicable_rows.pop_back()
pop_back(qs) ==
    [qs EXCEPT !.applicable_rows = SubSeq(@, 1, Len(@) - 1)]

\* questionSet.answers.at(item) = answer
SetAnswer(qs, item, answer) == [qs EXCEPT !.answers[item + 1] = answer]

\* the index of the iteration that threw, 0 if none did
Thrower(rs) ==
    IF \A k \in 1 .. Len(rs) : IsOk(rs[k]) THEN 0
    ELSE CHOOSE k \in 1 .. Len(rs) :
             ~IsOk(rs[k]) /\ \A j \in 1 .. (k - 1) : IsOk(rs[j])

\* the grm sum pairing the variance of answer i with the mass of answer i + 1
grm_weighted_sum_shifted(weights, probabilities) ==
    RSum([i \in 1 .. (Len(probabilities) - 1) |->
            RMul(weights[i].val,
                 RSub(At(probabilities, (i % (Len(probabilities) - 1)) + 1),
                      At(probabilities, i % (Len(probabilities) - 1))))])

\* sum of weights.at(i - 1) * (probabilities.at(i) - probabilities.at(i - 1))
grm_weighted_sum(weights, probabilities) ==
    RSum([i \in 1 .. (Len(probabilities) - 1) |->
            RMul(weights[i].val,
                 RSub(At(probabilities, i), At(probabilities, i - 1)))])

\* sum of weights.at(i) * probabilities.at(i)
gpcm_weighted_sum(weights, probabilities) ==
    RSum([i \in 1 .. Len(probabilities) |-> RMul(weights[i].val, probabilities[i])])

\* the expectation both polytomous loops end with
weighted_sum(qs, weights, probabilities) ==
    IF qs.model = "grm" THEN grm_weighted_sum(weights, probabilities)
    ELSE IF qs.model = "gpcm" THEN gpcm_weighted_sum(weights, probabilities)
    ELSE Zero

\* the hypothetical answers the loop over the categories commits
HypAnswersOf(qs, item) == 1 .. (Len(At(qs.difficulty, item)) + 1)

\* the loop over the categories, given what each turn computed on the
\* QuestionSet holding its hypothetical answer: the loop ends at the first
\* exception, with the QuestionSet as it is then
HypLoop(pushed, item, turns) ==
    Let(turns, LAMBDA rs :
        Let(Thrower(rs), LAMBDA thrower :
            IF thrower # 0
            THEN [qs |-> SetAnswer(pushed, item, thrower),
                  result |-> rs[thrower], values |-> <<>>]
            ELSE [qs |-> SetAnswer(pushed, item, Len(rs)),
                  result |-> Ok(Zero), values |-> rs]))

\* variances.push_back(pow(estimateSE(prior), 2.0)) for every hypothetical answer
variances_of(pushed, item, pr, ub) ==
    [i \in HypAnswersOf(pushed, item) |->
        estimateSE_pow2(SetAnswer(pushed, item, i), pr, ub)]

polytomous_posterior_variance(qs, item, pr, ub) ==
    Let(estimateTheta(qs, pr, ub), LAMBDA theta :
        IF ~IsOk(theta) THEN Outcome(qs, theta)
        ELSE Let(probability(qs, theta.val, item), LAMBDA probabilities :
            IF ~IsOk(probabilities) THEN Outcome(qs, probabilities)
            ELSE Let(HypLoop(push_back(qs, item), item,
                             variances_of(push_back(qs, item), item, pr, ub)),
                     LAMBDA loop :
                         IF ~IsOk(loop.result) THEN Outcome(loop.qs, loop.result)
                         ELSE Outcome(pop_back(loop.qs),
                                  Ok(weighted_sum(qs, loop.values,
                                                  probabilities.val))))))

binary_posterior_variance(qs, item, pr, ub) ==
    Let(estimateTheta(qs, pr, ub), LAMBDA theta :
        IF ~IsOk(theta) THEN Outcome(qs, theta)
        ELSE Let(prob_ltm(qs, theta.val, item), LAMBDA probability_incorrect :
            IF ~IsOk(probability_incorrect) THEN Outcome(qs, probability_incorrect)
            ELSE Let(SetAnswer(push_back(qs, item), item, 1), LAMBDA correct :
                 Let(estimateSE_pow2(correct, pr, ub), LAMBDA variance_correct :
                     IF ~IsOk(variance_correct) THEN Outcome(correct, variance_correct)
                     ELSE Let(SetAnswer(correct, item, 0), LAMBDA incorrect :
                          Let(estimateSE_pow2(incorrect, pr, ub),
                              LAMBDA variance_incorrect :
                                  IF ~IsOk(variance_incorrect)
                                  THEN Outcome(incorrect, variance_incorrect)
                                  ELSE Outcome(pop_back(incorrect),
                                           Ok(RAdd(RMul(probability_incorrect.val,
                                                        variance_correct.val),
                                                   RMul(RSub(One, probability_incorrect.val),
                                                        variance_incorrect.val))))))))))

expectedPV(qs, item, pr, ub) ==
    Let(IF IsBinary(qs) THEN binary_posterior_variance(qs, item, pr, ub)
        ELSE IF qs.model = "grm" \/ qs.model = "gpcm"
             THEN polytomous_posterior_variance(qs, item, pr, ub)
        ELSE Outcome(qs, Ok(Zero)),
        LAMBDA inner :
            IF ~IsOk(inner.result) THEN inner
            ELSE IF ~InRange(inner.qs.answers, item)
                 THEN Outcome(inner.qs, Throw("out_of_range"))
            ELSE Outcome(SetAnswer(inner.qs, item, NA_INTEGER), inner.result))

\* obsInf(estimateTheta(prior), item) on the QuestionSet holding the hypothetical answer
obsInf_at_estimate(hyp, item, pr, ub) ==
    Try(estimateTheta(hyp, pr, ub), LAMBDA theta : obsInf(hyp, theta, item, ub))

\* obsInfs.push_back(obsInf(estimateTheta(prior), item)) for every hypothetical answer
obsInfs_of(pushed, item, pr, ub) ==
    [i \in HypAnswersOf(pushed, item) |->
        obsInf_at_estimate(SetAnswer(pushed, item, i), item, pr, ub)]

expectedObsInf_poly(qs, item, pr, ub) ==
    Let(estimateTheta(qs, pr, ub), LAMBDA theta :
        IF ~IsOk(theta) THEN Outcome(qs, theta)
        ELSE Let(probability(qs, theta.val, item), LAMBDA probabilities :
            IF ~IsOk(probabilities) THEN Outcome(qs, probabilities)
            ELSE Let(HypLoop(push_back(qs, item), item,
                             obsInfs_of(push_back(qs, item), item, pr, ub)),
                     LAMBDA loop :
                         IF ~IsOk(loop.result) THEN Outcome(loop.qs, loop.result)
                         ELSE Outcome(pop_back(SetAnswer(loop.qs, item, NA_INTEGER)),
                                  Ok(weighted_sum(qs, loop.values,
                                                  probabilities.val))))))

expectedObsInf_binary(qs, item, pr, ub) ==
    Let(estimateTheta(qs, pr, ub), LAMBDA theta :
        IF ~IsOk(theta) THEN Outcome(qs, theta)
        ELSE Let(prob_ltm(qs, theta.val, item), LAMBDA prob_one :
            IF ~IsOk(prob_one) THEN Outcome(qs, prob_one)
            ELSE Let(SetAnswer(push_back(qs, item), item, 0), LAMBDA zero :
                 Let(obsInf_at_estimate(zero, item, pr, ub), LAMBDA obsInfZero :
                     IF ~IsOk(obsInfZero) THEN Outcome(zero, obsInfZero)
                     ELSE Let(SetAnswer(zero, item, 1), LAMBDA one :
                          Let(obsInf_at_estimate(one, item, pr, ub), LAMBDA obsInfOne :
                              IF ~IsOk(obsInfOne) THEN Outcome(one, obsInfOne)
                              ELSE Outcome(SetAnswer(pop_back(one), item, NA_INTEGER),
                                       Ok(RAdd(RMul(prob_one.val, obsInfOne.val),
                                               RMul(RSub(One, prob_one.val),
                                                    obsInfZero.val))))))))))

expectedObsInf(qs, item, pr, ub) ==
    IF qs.model = "grm" \/ qs.model = "gpcm"
    THEN expectedObsInf_poly(qs, item, pr, ub)
    ELSE expectedObsInf_binary(qs, item, pr, ub)

---------------------------------------------------------------------------
(* The variants of the expectations that take the hypothetical answer as   *)
(* a (question, answer) pair and commit nothing to the QuestionSet.        *)

\* pow(estimateSE(prior, question, answer), 2.0): the inverse of the test
\* information with the pair
estimateSE_pow2_aug(qs, pr, question, answer, ub) ==
    Try(fisherTestInfo_aug(qs, pr, question, answer, ub),
        LAMBDA info : Ok(RInv(info)))

\* obsInf(estimateTheta(prior, item, answer), item, answer)
obsInf_at_estimate_aug(qs, item, answer, pr, ub) ==
    Try(estimateTheta_aug(qs, pr, item, answer, ub), LAMBDA theta :
        obsInf_aug(qs, theta, item, answer, ub))

\* what every variant computes first: prob_ltm(estimateTheta(prior), item)
\* when binary, probability(estimateTheta(prior), item) otherwise
predicted_at_estimate(qs, item, pr, ub) ==
    Try(estimateTheta(qs, pr, ub), LAMBDA theta :
        IF IsBinary(qs) THEN prob_ltm(qs, theta, item)
        ELSE probability(qs, theta, item))

\* the hypothetical answers of the loops of the polytomous variants, in the
\* order of the loops: (int) i for 1 <= i < probabilities.size() (grm),
\* (int) i + 1 for 0 <= i < probabilities.size() (gpcm)
polytomous_answers(model, probabilities) ==
    [k \in 1 .. (IF model = "grm" THEN Len(probabilities) - 1
                 ELSE Len(probabilities)) |-> k]

\* estimateSE(prior, item, a) squared for each hypothetical answer a of the
\* variant, in the order the variant calls it; none is called when the
\* predicted probabilities raised
variant_variances(qs, item, pr, ub, predicted) ==
    IF ~IsOk(predicted) THEN <<>>
    ELSE IF IsBinary(qs)
         THEN [k \in 1 .. 2 |-> estimateSE_pow2_aug(qs, pr, item, 2 - k, ub)]
    ELSE [k \in 1 .. Len(polytomous_answers(qs.model, predicted.val)) |->
             estimateSE_pow2_aug(qs, pr, item,
                 polytomous_answers(qs.model, predicted.val)[k], ub)]

\* obsInf(estimateTheta(prior, item, a), item, a) for each hypothetical
\* answer a of the variant, in the order the variant calls it
variant_obsInfs(qs, item, pr, ub, predicted) ==
    IF ~IsOk(predicted) THEN <<>>
    ELSE IF IsBinary(qs)
         THEN [k \in 1 .. 2 |-> obsInf_at_estimate_aug(qs, item, k - 1, pr, ub)]
    ELSE [k \in 1 .. Len(polytomous_answers(qs.model, predicted.val)) |->
             obsInf_at_estimate_aug(qs, item,
                 polytomous_answers(qs.model, predicted.val)[k], pr, ub)]

\* (p * at_one) + ((1.0 - p) * at_zero)
binary_expectation(p, at_one, at_zero) ==
    RAdd(RMul(p, at_one), RMul(RSub(One, p), at_zero))

\* value * weight, once the value is there
weighted(r, weight) == Try(r, LAMBDA value : Ok(RMul(value, weight)))

\* expectedPV_ltm_tpm, given what its calls return: variances holds
\* variance_correct (answer 1), then variance_incorrect (answer 0)
expectedPV_ltm_tpm(predicted, variances) ==
    Try(predicted, LAMBDA probability_incorrect :
    Try(variances[1], LAMBDA variance_correct :
    Try(variances[2], LAMBDA variance_incorrect :
        Ok(binary_expectation(probability_incorrect, variance_correct,
                              variance_incorrect)))))

\* the sum of the grm loops: term i is turns[i] times
\* (probabilities.at(i) - probabilities.at(i-1))
grm_variant_sum(probabilities, turns) ==
    Accumulate([i \in 1 .. (Len(probabilities) - 1) |->
        weighted(turns[i], RSub(At(probabilities, i), At(probabilities, i - 1)))])

\* the sum of the gpcm loops: term i is turns[i + 1] (answer i + 1) times
\* probabilities.at(i)
gpcm_variant_sum(probabilities, turns) ==
    Accumulate([k \in 1 .. Len(probabilities) |->
        weighted(turns[k], At(probabilities, k - 1))])

\* expectedPV_grm_gpcm, given what its calls return
expectedPV_grm_gpcm(model, predicted, variances) ==
    Try(predicted, LAMBDA probabilities :
        IF model = "grm" THEN grm_variant_sum(probabilities, variances)
        ELSE IF model = "gpcm" THEN gpcm_variant_sum(probabilities, variances)
        ELSE Ok(Zero))

\* expectedObsInf_grm, given what its calls return
expectedObsInf_grm(predicted, obsInfs) ==
    Try(predicted, LAMBDA probabilities : grm_variant_sum(probabilities, obsInfs))

\* expectedObsInf_gpcm, given what its calls return
expectedObsInf_gpcm(predicted, obsInfs) ==
    Try(predicted, LAMBDA probabilities : gpcm_variant_sum(probabilities, obsInfs))

\* expectedObsInf_rest, given what its calls return: obsInfs holds
\* obsInfZero, then obsInfOne
expectedObsInf_rest(predicted, obsInfs) ==
    Try(predicted, LAMBDA prob_one :
    Try(obsInfs[1], LAMBDA obsInfZero :
    Try(obsInfs[2], LAMBDA obsInfOne :
        Ok(binary_expectation(prob_one, obsInfOne, obsInfZero)))))

\* a variant that commits the hypothetical answers as expectedPV does
expectedPV_variant_committing(qs, item, pr, ub) == expectedPV(qs, item, pr, ub)

\* the variant of expectedPV of the model of the QuestionSet; the
\* QuestionSet it leaves behind is the one it was given
expectedPV_variant(qs, item, pr, ub) ==
    Let(predicted_at_estimate(qs, item, pr, ub), LAMBDA predicted :
    Let(variant_variances(qs, item, pr, ub, predicted), LAMBDA variances :
        Outcome(qs, IF IsBinary(qs) THEN expectedPV_ltm_tpm(predicted, variances)
                    ELSE expectedPV_grm_gpcm(qs.model, predicted, variances))))

\* the variant of expectedObsInf of the model of the QuestionSet
expectedObsInf_variant(qs, item, pr, ub) ==
    Let(predicted_at_estimate(qs, item, pr, ub), LAMBDA predicted :
    Let(variant_obsInfs(qs, item, pr, ub, predicted), LAMBDA obsInfs :
        Outcome(qs, IF qs.model = "grm" THEN expectedObsInf_grm(predicted, obsInfs)
                    ELSE IF qs.model = "gpcm"
                         THEN expectedObsInf_gpcm(predicted, obsInfs)
                    ELSE expectedObsInf_rest(predicted, obsInfs))))

---------------------------------------------------------------------------
(* MFIISelector *)

\* the turn of the loop labelling the score by the loop index in place of
\* the question id
selectItem_step_by_index(qs, question, value, state) ==
    [selection |-> [state.selection EXCEPT
                       !.question_names =
                           Append(@, At(qs.question_names, Len(state.selection.values))),
                       !.values = Append(@, value)],
     max_mfii |-> IF RLess(state.max_mfii, value) THEN value ELSE state.max_mfii,
     max_item |-> IF RLess(state.max_mfii, value) THEN question ELSE state.max_item]

\* one turn of the loop of selectItem: the name and the score are pushed and
\* the running maximum (max_mfii, max_item) is raised by a greater score
selectItem_step(qs, question, value, state) ==
    [selection |-> [state.selection EXCEPT
                       !.question_names = Append(@, At(qs.question_names, question)),
                       !.values = Append(@, value)],
     max_mfii |-> IF RLess(state.max_mfii, value) THEN value ELSE state.max_mfii,
     max_item |-> IF RLess(state.max_mfii, value) THEN question ELSE state.max_item]

\* the loop catching the exception of a candidate and delivering the
\* Selection built from the candidates scored before it
RECURSIVE selectItem_loop_partial(_, _, _, _, _)
selectItem_loop_partial(qs, pr, ub, i, state) ==
    IF i >= Len(qs.nonapplicable_rows)
    THEN Ok([state.selection EXCEPT !.item = state.max_item])
    ELSE Let(fii(qs, At(qs.nonapplicable_rows, i), pr, ub), LAMBDA value :
             IF ~IsOk(value) THEN Ok([state.selection EXCEPT !.item = state.max_item])
             ELSE selectItem_loop_partial(qs, pr, ub, i + 1,
                      selectItem_step(qs, At(qs.nonapplicable_rows, i), value.val, state)))

\* the loop of selectItem from index i on
RECURSIVE selectItem_loop(_, _, _, _, _)
selectItem_loop(qs, pr, ub, i, state) ==
    IF i >= Len(qs.nonapplicable_rows)
    THEN Ok([state.selection EXCEPT !.item = state.max_item])
    ELSE Try(fii(qs, At(qs.nonapplicable_rows, i), pr, ub), LAMBDA value :
             selectItem_loop(qs, pr, ub, i + 1,
                 selectItem_step(qs, At(qs.nonapplicable_rows, i), value, state)))

selectItem(qs, pr, ub) ==
    selectItem_loop(qs, pr, ub, 0,
        [selection |-> [questions |-> qs.nonapplicable_rows, values |-> <<>>,
                        name |-> "MFII", question_names |-> <<>>, item |-> -1],
         max_mfii |-> Zero, max_item |-> -1])

---------------------------------------------------------------------------
(* The engine driven by a synchronous caller: the caller makes one call,   *)
(* call holds what the call was and what came back, and the caller takes   *)
(* the result before it calls again.                                       *)

\* the most rows applicable_rows is let grow to by calls that leave an item behind
MaxRows == NItems + 1

\* recorded answers the loader supplies
Init ==
    /\ \E model \in Models :
       \E ans \in [Items -> {0, 1, 2, 3, NA_INTEGER}] :
           /\ \A i \in Items :
                  \/ ans[i] = NA_INTEGER
                  \/ ans[i] \in ValidAnswers(model, ItemDifficulty("mild", model, i))
           /\ questionSet = MakeQuestionSet("mild", model, ans)
    /\ prior \in Priors
    /\ call = NoCall
    /\ brent = NoBrent
    /\ computations = NoComputations

Idle == call.op = "none"

\* the builds a call can tell apart: a signed overflow needs the
\* missing-answer sentinel among the answers the call reads
Builds(qs, answer) ==
    IF \/ answer = NA_INTEGER
       \/ \E k \in 1 .. Len(qs.applicable_rows) :
              At(qs.answers, qs.applicable_rows[k]) = NA_INTEGER
    THEN SignedOverflow
    ELSE {"wrap"}

\* answers handed to the (question, answer) overloads: the valid ones, the
\* neighbours of the valid range and the missing-answer sentinel
HypAnswers(qs, question) ==
    LET valid == ValidAnswers(qs.model, At(qs.difficulty, question))
    IN  valid \cup {NA_INTEGER}
              \cup {a \in -1 .. 4 : (a + 1) \in valid \/ (a - 1) \in valid}

ExpectedPV ==
    /\ Idle
    /\ Len(questionSet.applicable_rows) < MaxRows
    /\ \E item \in 0 .. NItems, ub \in Builds(questionSet, 0) :
       \E o \in {expectedPV(questionSet, item, prior, ub)} :
           /\ questionSet' = o.qs
           /\ call' = Call("expectedPV", ub, 0, item, 0, FALSE,
                           Snapshot(questionSet), o.result)
    /\ UNCHANGED <<prior, brent, computations>>

ExpectedObsInf ==
    /\ Idle
    /\ Len(questionSet.applicable_rows) < MaxRows
    /\ \E item \in 0 .. NItems, ub \in Builds(questionSet, 0) :
       \E o \in {expectedObsInf(questionSet, item, prior, ub)} :
           /\ questionSet' = o.qs
           /\ call' = Call("expectedObsInf", ub, 0, item, 0, FALSE,
                           Snapshot(questionSet), o.result)
    /\ UNCHANGED <<prior, brent, computations>>

SelectItem ==
    /\ Idle
    /\ \E ub \in Builds(questionSet, 0) :
           call' = Call("selectItem", ub, 0, 0, 0, FALSE, Snapshot(questionSet),
                        selectItem(questionSet, prior, ub))
    /\ UNCHANGED <<questionSet, prior, brent, computations>>

Likelihood ==
    /\ Idle
    /\ \E theta \in Thetas, ub \in Builds(questionSet, 0) :
           call' = Call("likelihood", ub, theta, 0, 0, FALSE, Snapshot(questionSet),
                        likelihood(questionSet, theta, ub))
    /\ UNCHANGED <<questionSet, prior, brent, computations>>

LikelihoodAug ==
    /\ Idle
    /\ \E theta \in Thetas, question \in Items :
       \E answer \in HypAnswers(questionSet, question) :
       \E ub \in Builds(questionSet, answer) :
           call' = Call("likelihood_aug", ub, theta, question, answer, FALSE,
                        Snapshot(questionSet),
                        likelihood_aug(questionSet, theta, question, answer, ub))
    /\ UNCHANGED <<questionSet, prior, brent, computations>>

D1LL ==
    /\ Idle
    /\ \E theta \in Thetas, use_prior \in BOOLEAN, ub \in Builds(questionSet, 0) :
           call' = Call("d1LL", ub, theta, 0, 0, use_prior, Snapshot(questionSet),
                        d1LL(questionSet, theta, use_prior, prior, ub))
    /\ UNCHANGED <<questionSet, prior, brent, computations>>

D1LLAug ==
    /\ Idle
    /\ \E theta \in Thetas, use_prior \in BOOLEAN, question \in Items :
       \E answer \in HypAnswers(questionSet, question) :
       \E ub \in Builds(questionSet, answer) :
           call' = Call("d1LL_aug", ub, theta, question, answer, use_prior,
                        Snapshot(questionSet),
                        d1LL_aug(questionSet, theta, use_prior, prior, question, answer, ub))
    /\ UNCHANGED <<questionSet, prior, brent, computations>>

D2LL ==
    /\ Idle
    /\ \E theta \in Thetas, use_prior \in BOOLEAN, ub \in Builds(questionSet, 0) :
           call' = Call("d2LL", ub, theta, 0, 0, use_prior, Snapshot(questionSet),
                        d2LL(questionSet, theta, use_prior, prior, ub))
    /\ UNCHANGED <<questionSet, prior, brent, computations>>

D2LLAug ==
    /\ Idle
    /\ \E theta \in Thetas, use_prior \in BOOLEAN, question \in Items :
       \E answer \in HypAnswers(questionSet, question) :
       \E ub \in Builds(questionSet, answer) :
           call' = Call("d2LL_aug", ub, theta, question, answer, use_prior,
                        Snapshot(questionSet),
                        d2LL_aug(questionSet, theta, use_prior, prior, question, answer, ub))
    /\ UNCHANGED <<questionSet, prior, brent, computations>>

FisherTestInfo ==
    /\ Idle
    /\ \E ub \in Builds(questionSet, 0) :
           call' = Call("fisherTestInfo", ub, 0, 0, 0, FALSE, Snapshot(questionSet),
                        fisherTestInfo(questionSet, prior, ub))
    /\ UNCHANGED <<questionSet, prior, brent, computations>>

FisherTestInfoAug ==
    /\ Idle
    /\ \E question \in Items :
       \E answer \in HypAnswers(questionSet, question) :
       \E ub \in Builds(questionSet, answer) :
           call' = Call("fisherTestInfo_aug", ub, 0, question, answer, FALSE,
                        Snapshot(questionSet),
                        fisherTestInfo_aug(questionSet, prior, question, answer, ub))
    /\ UNCHANGED <<questionSet, prior, brent, computations>>

ExpectedPVVariant ==
    /\ Idle
    /\ \E item \in 0 .. NItems, ub \in Builds(questionSet, 0) :
       \E o \in {expectedPV_variant(questionSet, item, prior, ub)} :
           /\ questionSet' = o.qs
           /\ call' = Call("expectedPV_variant", ub, 0, item, 0, FALSE,
                           Snapshot(questionSet), o.result)
    /\ UNCHANGED <<prior, brent, computations>>

ExpectedObsInfVariant ==
    /\ Idle
    /\ \E item \in 0 .. NItems, ub \in Builds(questionSet, 0) :
       \E o \in {expectedObsInf_variant(questionSet, item, prior, ub)} :
           /\ questionSet' = o.qs
           /\ call' = Call("expectedObsInf_variant", ub, 0, item, 0, FALSE,
                           Snapshot(questionSet), o.result)
    /\ UNCHANGED <<prior, brent, computations>>

\* the caller takes the result or the exception; a trapped process has no caller left
Return ==
    /\ ~Idle
    /\ call.result.err # "trap"
    /\ call' = NoCall
    /\ UNCHANGED <<questionSet, prior, brent, computations>>

\* the engine on the state the session has committed
Next ==
    \/ ExpectedPV
    \/ ExpectedObsInf
    \/ SelectItem
    \/ Likelihood
    \/ D1LL
    \/ D2LL
    \/ FisherTestInfo
    \/ Return

Spec == Init /\ [][Next]_vars

\* the (question, answer) overloads applied to the loaded QuestionSet
NextAug ==
    \/ LikelihoodAug
    \/ D1LLAug
    \/ D2LLAug
    \/ FisherTestInfoAug
    \/ ExpectedPVVariant
    \/ ExpectedObsInfVariant
    \/ Return

SpecAug == Init /\ [][NextAug]_vars

---------------------------------------------------------------------------
(* brentMethod, statement by statement.  The GSL solver is a library: what *)
(* its calls return (the next bracket and root estimate, the verdict of    *)
(* the interval test) is chosen by the environment; the one thing the      *)
(* supplied function contributes is whether an evaluation raises.          *)

max_iter == 100

x_lo_start == -5

x_hi_start == 5

\* the supplied function: "total" returns a value at every point, "partial"
\* raises std::domain_error at some points (d1LL does where prob_grm or
\* prob_gpcm meet an extreme theta)
Functions == {"total", "partial"}

\* the points of [x_lo, x_hi] the model tells apart
BrentGrid == {x_lo_start, 0, x_hi_start}

GslTestStatus == {"GSL_CONTINUE", "GSL_SUCCESS"}

\* what an evaluation of the function by the solver can do
Evaluations(function) == IF function = "partial" THEN {"value", "raise"} ELSE {"value"}

\* the loop bounded by the iteration that follows the cap
loop_condition_past_cap(status, iter) == status = "GSL_CONTINUE" /\ iter <= max_iter

\* while (status == GSL_CONTINUE && iter < max_iter)
loop_condition(status, iter) == status = "GSL_CONTINUE" /\ iter < max_iter

\* the exception leaves brentMethod: nothing after the throwing call runs
BrentRaised(b) == [b EXCEPT !.pc = "exited", !.outcome = "raised"]

\* the declarations: iter = 0, r = 0, x_lo = -5.0, x_hi = 5.0
BrentMethod ==
    /\ Idle
    /\ brent.pc = "idle"
    /\ \A t \in Threads : computations[t].pc = "idle"
    /\ \E function \in Functions :
           brent' = [NoBrent EXCEPT !.pc = "alloc", !.function = function,
                                    !.x_lo = x_lo_start, !.x_hi = x_hi_start]
    /\ UNCHANGED <<questionSet, prior, call, computations>>

\* s = gsl_root_fsolver_alloc(T)
BrentAlloc ==
    /\ brent.pc = "alloc"
    /\ brent' = [brent EXCEPT !.pc = "set", !.handle = "allocated"]
    /\ UNCHANGED <<questionSet, prior, call, computations>>

\* gsl_root_fsolver_set(s, F, x_lo, x_hi) evaluates the function at both ends
BrentSet ==
    /\ brent.pc = "set"
    /\ \E evaluation \in Evaluations(brent.function) :
           brent' = IF evaluation = "raise" THEN BrentRaised(brent)
                    ELSE [brent EXCEPT !.pc = "iterate"]
    /\ UNCHANGED <<questionSet, prior, call, computations>>

\* one turn of the do-while loop, up to its condition
BrentIterate ==
    /\ brent.pc = "iterate"
    /\ \E evaluation \in Evaluations(brent.function) :
       \E lo \in BrentGrid, hi \in BrentGrid, root \in BrentGrid, status \in GslTestStatus :
           /\ brent.x_lo <= lo /\ lo <= root /\ root <= hi /\ hi <= brent.x_hi
           /\ brent' =
                  IF evaluation = "raise"
                  THEN BrentRaised([brent EXCEPT !.iter = brent.iter + 1])
                  ELSE [brent EXCEPT !.iter = brent.iter + 1,
                                     !.root = root, !.r = root,
                                     !.x_lo = lo, !.x_hi = hi,
                                     !.status = status,
                                     !.pc = IF loop_condition(status, brent.iter + 1)
                                            THEN "iterate" ELSE "free"]
    /\ UNCHANGED <<questionSet, prior, call, computations>>

\* gsl_root_fsolver_free(s)
BrentFree ==
    /\ brent.pc = "free"
    /\ brent' = [brent EXCEPT !.pc = "return", !.handle = "released",
                              !.releases = brent.releases + 1]
    /\ UNCHANGED <<questionSet, prior, call, computations>>

\* return r
BrentReturn ==
    /\ brent.pc = "return"
    /\ brent' = [brent EXCEPT !.pc = "exited", !.outcome = "returned",
                              !.result = brent.r]
    /\ UNCHANGED <<questionSet, prior, call, computations>>

\* the caller takes the result or the exception
BrentCaller ==
    /\ brent.pc = "exited"
    /\ brent' = NoBrent
    /\ UNCHANGED <<questionSet, prior, call, computations>>

\* the statements of brentMethod: the code is synchronous, every statement
\* that is reached is executed
BrentStep ==
    \/ BrentAlloc
    \/ BrentSet
    \/ BrentIterate
    \/ BrentFree
    \/ BrentReturn

InitBrent ==
    /\ questionSet = MakeQuestionSet("mild", "grm", [i \in Items |-> NA_INTEGER])
    /\ prior = [param0 |-> 0, param1 |-> 1]
    /\ call = NoCall
    /\ brent = NoBrent
    /\ computations = NoComputations

NextBrent ==
    \/ BrentMethod
    \/ BrentAlloc
    \/ BrentSet
    \/ BrentIterate
    \/ BrentFree
    \/ BrentReturn
    \/ BrentCaller

SpecBrent == InitBrent /\ [][NextBrent]_vars /\ WF_vars(BrentStep)

---------------------------------------------------------------------------
(* expectedPV and expectedObsInf, statement by statement, run by callers   *)
(* that share one QuestionSet.  A caller that serializes starts a          *)
(* computation only when no other is in progress; nothing in the code      *)
(* makes it do so.  The steps are the ones between which another caller    *)
(* can run: the estimate before the push, the push, each write of a        *)
(* hypothetical answer, each evaluation, the pop and the reset.            *)

ComputationKinds == {"expectedPV", "expectedObsInf"}

\* the hypothetical answers in the order the computation writes them
hyp_answers(kind, qs, item) ==
    IF IsBinary(qs) THEN (IF kind = "expectedPV" THEN <<1, 0>> ELSE <<0, 1>>)
    ELSE [i \in HypAnswersOf(qs, item) |-> i]

\* the statements after the last evaluation, in the order of the code
cleanup(kind, qs) ==
    IF kind = "expectedObsInf" /\ ~IsBinary(qs) THEN <<"restore", "pop">>
    ELSE <<"pop", "restore">>

\* std::pow(estimateSE(prior), 2.0) or obsInf(estimateTheta(prior), item)
evaluation_of(kind, qs, item, pr, ub) ==
    IF kind = "expectedPV" THEN estimateSE_pow2(qs, pr, ub)
    ELSE obsInf_at_estimate(qs, item, pr, ub)

\* the computation left by an exception, or killed by the trap of a build
Leaves(c, result) ==
    [c EXCEPT !.pc = "exit", !.outcome = IF IsOk(result) THEN "returned" ELSE result.err]

\* the computation after one of its two cleanup statements
Cleaned(c, qs) ==
    IF c.cleaned = 1 THEN [c EXCEPT !.pc = "exit", !.cleaned = 2, !.outcome = "returned"]
    ELSE [c EXCEPT !.pc = cleanup(c.kind, qs)[2], !.cleaned = 1]

\* the other callers with a computation in progress
Others(t) == {u \in Threads \ {t} : computations[u].pc \notin {"idle", "done"}}

\* probability(estimateTheta(prior), item) before anything is pushed
Begin(t) ==
    /\ Idle
    /\ brent.pc = "idle"
    /\ computations[t].pc = "idle"
    /\ Len(questionSet.applicable_rows) + Cardinality(Others(t)) < MaxRows
    /\ \E kind \in ComputationKinds, item \in Items, ub \in Builds(questionSet, 0) :
           /\ \A u \in Others(t) : computations[u].item # item
           /\ \E predicted \in {predicted_at_estimate(questionSet, item, prior, ub)} :
                  computations' =
                      [u \in Threads |->
                          IF u # t
                          THEN [computations[u] EXCEPT
                                    !.serialized = @ /\ u \notin Others(t)]
                          ELSE Let([NoComputation EXCEPT
                                        !.kind = kind, !.item = item,
                                        !.pre = questionSet.applicable_rows,
                                        !.serialized = Others(t) = {}],
                                   LAMBDA c : IF IsOk(predicted)
                                              THEN [c EXCEPT !.pc = "push"]
                                              ELSE Leaves(c, predicted))]
    /\ UNCHANGED <<questionSet, prior, call, brent>>

\* questionSet.applicable_rows.push_back(item)
Push(t) ==
    /\ computations[t].pc = "push"
    /\ questionSet' = push_back(questionSet, computations[t].item)
    /\ computations' = [computations EXCEPT ![t].pc = "write", ![t].turn = 1]
    /\ UNCHANGED <<prior, call, brent>>

\* questionSet.answers.at(item) = the hypothetical answer of this turn
WriteAnswer(t) ==
    /\ computations[t].pc = "write"
    /\ \E answer \in {hyp_answers(computations[t].kind, questionSet,
                                  computations[t].item)[computations[t].turn]} :
           /\ questionSet' = SetAnswer(questionSet, computations[t].item, answer)
           /\ computations' = [computations EXCEPT ![t].pc = "evaluate",
                                                   ![t].wrote = answer]
    /\ UNCHANGED <<prior, call, brent>>

\* estimateSE(prior) or obsInf(estimateTheta(prior), item) on the shared state
Evaluate(t) ==
    /\ computations[t].pc = "evaluate"
    /\ \E ub \in Builds(questionSet, 0) :
       \E result \in {evaluation_of(computations[t].kind, questionSet,
                                    computations[t].item, prior, ub)} :
           computations' =
               [computations EXCEPT ![t] =
                   Let([computations[t] EXCEPT !.seen =
                            [rows |-> questionSet.applicable_rows,
                             answer |-> At(questionSet.answers, computations[t].item),
                             wrote |-> computations[t].wrote]],
                       LAMBDA c :
                           IF ~IsOk(result) THEN Leaves(c, result)
                           ELSE IF c.turn < Len(hyp_answers(c.kind, questionSet, c.item))
                           THEN [c EXCEPT !.pc = "write", !.turn = c.turn + 1]
                           ELSE [c EXCEPT !.pc = cleanup(c.kind, questionSet)[1]])]
    /\ UNCHANGED <<questionSet, prior, call, brent>>

\* questionSet.applicable_rows.pop_back()
PopBack(t) ==
    /\ computations[t].pc = "pop"
    /\ questionSet' = pop_back(questionSet)
    /\ computations' = [computations EXCEPT ![t] = Cleaned(@, questionSet)]
    /\ UNCHANGED <<prior, call, brent>>

\* questionSet.answers.at(item) = NA_INTEGER
Restore(t) ==
    /\ computations[t].pc = "restore"
    /\ questionSet' = SetAnswer(questionSet, computations[t].item, NA_INTEGER)
    /\ computations' = [computations EXCEPT ![t] = Cleaned(@, questionSet)]
    /\ UNCHANGED <<prior, call, brent>>

\* the caller takes the result or the exception and calls no more; a
\* trapped build is dead
Taken(t) ==
    /\ computations[t].pc = "exit"
    /\ \A u \in Threads : computations[u].outcome # "trap"
    /\ computations' = [computations EXCEPT ![t] = [NoComputation EXCEPT !.pc = "done"]]
    /\ UNCHANGED <<questionSet, prior, call, brent>>

\* one QuestionSet per model, with nothing answered or with item 0 answered
InitShared ==
    /\ \E model \in Models, answered \in BOOLEAN :
           questionSet =
               MakeQuestionSet("mild", model,
                   [i \in Items |-> IF answered /\ i = 0 THEN 1 ELSE NA_INTEGER])
    /\ prior = [param0 |-> 0, param1 |-> 1]
    /\ call = NoCall
    /\ brent = NoBrent
    /\ computations = NoComputations

NextShared ==
    \/ \E t \in Threads : Begin(t)
    \/ \E t \in Threads : Push(t)
    \/ \E t \in Threads : WriteAnswer(t)
    \/ \E t \in Threads : Evaluate(t)
    \/ \E t \in Threads : PopBack(t)
    \/ \E t \in Threads : Restore(t)
    \/ \E t \in Threads : Taken(t)

SpecShared == InitShared /\ [][NextShared]_vars

---------------------------------------------------------------------------
(* The probability models applied to the wide grid *)

InitProb ==
    /\ \E model \in Models :
           questionSet = MakeQuestionSet("wide", model, [i \in Items |-> NA_INTEGER])
    /\ prior \in Priors
    /\ call = NoCall
    /\ brent = NoBrent
    /\ computations = NoComputations

\* item ids run past the last valid id
ProbabilityCall ==
    \E theta \in ProbThetas(questionSet.model), question \in 0 .. (NItems + 1) :
        /\ call' = Call("probability", "wrap", theta, question, 0, FALSE, Snapshot(questionSet),
                        probability(questionSet, theta, question))
        /\ UNCHANGED <<questionSet, prior, brent, computations>>

NextProb == ProbabilityCall

SpecProb == InitProb /\ [][NextProb]_vars

---------------------------------------------------------------------------
(* Claims about the probability models (checked under SpecProb) *)

Binary == questionSet.model = "ltm" \/ questionSet.model = "tpm"

\* a probability call that returned a sequence for a valid item id
ProbReturned ==
    /\ call.op = "probability"
    /\ IsOk(call.result)
    /\ InRange(questionSet.difficulty, call.item)

CallDifficulty == At(questionSet.difficulty, call.item)

InClosed(x, lo, hi) == RLeq(lo, x) /\ RLeq(x, hi)

\* C5 as stated: probability returns 1 element for ltm/tpm and
\* (length of difficulty[item]) + 1 elements for grm and gpcm.
C5_LengthAsStated ==
    ProbReturned =>
        Len(call.result.val) = (IF Binary THEN 1 ELSE Len(CallDifficulty) + 1)

\* C5 amended: probability returns 1 element for ltm/tpm, (length of
\* difficulty[item]) + 1 elements for gpcm, and (length of difficulty[item]) + 2
\* elements for grm, whose result is the padded sequence [0, F_1 .. F_k, 1].
C5_Length ==
    ProbReturned =>
        Len(call.result.val) =
            (IF Binary THEN 1
             ELSE IF questionSet.model = "grm" THEN Len(CallDifficulty) + 2
             ELSE Len(CallDifficulty) + 1)

C5_Witness ==
    /\ ProbReturned
    /\ questionSet.model = "grm"
    /\ Len(CallDifficulty) = 2
    /\ Len(call.result.val) = 4

\* C6 as stated: for every model the returned elements lie in [eps, 1]
\* (grm, gpcm) or [eps, 1 - eps] (ltm/tpm) and sum to 1.
C6_RangeAndSumAsStated ==
    ProbReturned =>
        /\ \A k \in 1 .. Len(call.result.val) :
               InClosed(call.result.val[k], eps, IF Binary THEN OneMinusEps ELSE One)
        /\ RSum(call.result.val) = One

\* C6 amended: for ltm/tpm the single returned element lies in [eps, 1 - eps];
\* for grm the returned sequence starts with 0, ends with 1 (so its consecutive
\* differences sum to 1) and every element between them lies in [eps, 1 - eps];
\* for gpcm the returned elements lie in [0, 1] and sum to 1.
C6_RangeAndSum ==
    ProbReturned =>
        LET v == call.result.val
        IN  IF Binary THEN Len(v) = 1 /\ InClosed(v[1], eps, OneMinusEps)
            ELSE IF questionSet.model = "grm"
                 THEN /\ v[1] = Zero
                      /\ v[Len(v)] = One
                      /\ \A k \in 2 .. (Len(v) - 1) : InClosed(v[k], eps, OneMinusEps)
            ELSE /\ \A k \in 1 .. Len(v) : InClosed(v[k], Zero, One)
                 /\ RSum(v) = One

\* a gpcm call returning a category mass strictly between 0 and eps
C6_Witness ==
    /\ ProbReturned
    /\ questionSet.model = "gpcm"
    /\ \E k \in 1 .. Len(call.result.val) :
           (RLess(Zero, call.result.val[k]) /\ RLess(call.result.val[k], eps))

\* C8: probability with an item id >= the number of items (the id equal to
\* the number of items included) raises an error for every model and returns
\* no sequence.
C8_BadItemIdRaises ==
    (call.op = "probability" /\ call.item >= NItems) => ~IsOk(call.result)

\* the boundary id passes the guard of probability and is stopped by .at()
C8_Witness ==
    /\ call.op = "probability"
    /\ call.item = NItems
    /\ call.result.err = "out_of_range"

---------------------------------------------------------------------------
(* Claims about the transient mutation of expectedPV and expectedObsInf    *)
(* (checked under Spec)                                                    *)

\* a call of expectedPV or expectedObsInf whose outcome the caller holds
ExpectedCall == call.op = "expectedPV" \/ call.op = "expectedObsInf"

\* applicable_rows and answers[item] are what they were before the call
RestoredSinceCall ==
    /\ questionSet.applicable_rows = call.pre.applicable_rows
    /\ InRange(questionSet.answers, call.item) =>
           At(questionSet.answers, call.item) = At(call.pre.answers, call.item)

\* C1 as stated: for every QuestionSet state and every item, when expectedPV
\* or expectedObsInf returns normally, applicable_rows (contents and order)
\* and answers[item] equal their values immediately before the call.
C1_RestoredOnReturn ==
    (ExpectedCall /\ IsOk(call.result)) => RestoredSinceCall

\* what the code does keep: on a normal return applicable_rows is as before
\* the call, and so is answers when the item had no recorded answer
RestoredWhenUnanswered ==
    (ExpectedCall /\ IsOk(call.result)) =>
        /\ questionSet.applicable_rows = call.pre.applicable_rows
        /\ At(call.pre.answers, call.item) = NA_INTEGER =>
               questionSet.answers = call.pre.answers

\* C2 as stated: when a numeric-domain error raised inside expectedPV or
\* expectedObsInf reaches the caller, applicable_rows and answers[item] are
\* restored to their values before the call: neither the hypothetical item
\* nor a hypothetical answer is left behind.
C2_RestoredOnError ==
    (ExpectedCall /\ call.result.err = "domain_error") => RestoredSinceCall

---------------------------------------------------------------------------
(* Claims about MFIISelector::selectItem (checked under Spec) *)

\* a selectItem call that returned a Selection
Selected == call.op = "selectItem" /\ IsOk(call.result)

\* the Selection the caller holds
TheSelection == call.result.val

\* the i-th candidate (from 0) in scan order
Candidate(i) == At(questionSet.nonapplicable_rows, i)

\* the score of the i-th candidate, or the exception scoring it raises
ScoreOf(i) == fii(questionSet, Candidate(i), prior, call.ub)

CandidateIndexes == 0 .. (Len(questionSet.nonapplicable_rows) - 1)

\* whether no score is greater than the score at index k (from 1)
IsMaxScore(values, k) == \A j \in 1 .. Len(values) : RLeq(values[j], values[k])

\* C3 as stated: for every non-empty nonapplicable_rows and every vector of
\* scores (all-zero vectors included), selectItem returns as Selection.item
\* the first candidate in scan order whose score equals the maximum score;
\* in particular Selection.item is a member of nonapplicable_rows.
C3_FirstMaximum ==
    (Selected /\ questionSet.nonapplicable_rows # <<>>) =>
        /\ \E k \in 1 .. Len(TheSelection.values) :
               /\ IsMaxScore(TheSelection.values, k)
               /\ \A j \in 1 .. (k - 1) : ~IsMaxScore(TheSelection.values, j)
               /\ TheSelection.item = TheSelection.questions[k]
        /\ \E i \in CandidateIndexes : TheSelection.item = Candidate(i)

\* C4: the Selection returned by selectItem has questions equal to
\* nonapplicable_rows, and values and question_names of the same length, with
\* values[i] the score computed for questions[i] and question_names[i] the
\* display label of questions[i], for every index i.
C4_ParallelSequences ==
    Selected =>
        /\ TheSelection.questions = questionSet.nonapplicable_rows
        /\ Len(TheSelection.values) = Len(questionSet.nonapplicable_rows)
        /\ Len(TheSelection.question_names) = Len(questionSet.nonapplicable_rows)
        /\ \A i \in CandidateIndexes :
               /\ Ok(At(TheSelection.values, i)) = ScoreOf(i)
               /\ At(TheSelection.question_names, i) =
                      At(questionSet.question_names, At(TheSelection.questions, i))

\* a Selection over candidates whose ids differ from their scan positions,
\* with two different scores
C4_Witness ==
    /\ Selected
    /\ Len(TheSelection.questions) = 2
    /\ At(TheSelection.questions, 0) # 0
    /\ At(TheSelection.values, 0) # At(TheSelection.values, 1)
    /\ At(TheSelection.question_names, 1) = <<"Q", 2>>

\* C10: if scoring a candidate raises a numeric-domain error during
\* selectItem, the call ends with the error of the first candidate that
\* raised and delivers no Selection: no item id and no scores of the
\* candidates before it.
C10_NoPartialSelection ==
    (call.op = "selectItem" /\ \E i \in CandidateIndexes : ScoreOf(i).err = "domain_error")
        => /\ ~IsOk(call.result)
           /\ call.result.val = <<>>
           /\ \E i \in CandidateIndexes :
                  /\ call.result = ScoreOf(i)
                  /\ \A j \in 0 .. (i - 1) : IsOk(ScoreOf(j))

\* the first candidates were scored before a later one raised the error
C10_Witness ==
    /\ call.op = "selectItem"
    /\ call.result.err = "domain_error"
    /\ Len(questionSet.nonapplicable_rows) = 3
    /\ IsOk(ScoreOf(0))
    /\ IsOk(ScoreOf(1))
    /\ ScoreOf(2).err = "domain_error"

---------------------------------------------------------------------------
(* Claims about the (question, answer) overloads (checked under SpecAug) *)

\* a call of one of the augmented overloads
AugmentedCall ==
    call.op \in {"likelihood_aug", "d1LL_aug", "d2LL_aug", "fisherTestInfo_aug"}

\* the QuestionSet with the pair of the call committed: applicable_rows
\* followed by the question, and answers[question] = answer
Committed == SetAnswer(push_back(questionSet, call.item), call.item, call.answer)

\* the question of the call is not among the applicable rows
QuestionNotInRows ==
    \A k \in 1 .. Len(questionSet.applicable_rows) :
        questionSet.applicable_rows[k] # call.item

\* the single-state overload of the function of the call, on the committed state
SingleStateResult ==
    IF call.op = "likelihood_aug" THEN likelihood(Committed, call.theta, call.ub)
    ELSE IF call.op = "d1LL_aug"
         THEN d1LL(Committed, call.theta, call.use_prior, prior, call.ub)
    ELSE IF call.op = "d2LL_aug"
         THEN d2LL(Committed, call.theta, call.use_prior, prior, call.ub)
    ELSE fisherTestInfo(Committed, prior, call.ub)

C9_InvalidAnswerRaises ==
    (/\ call.op \in {"likelihood_aug", "d1LL_aug", "d2LL_aug"}
     /\ call.answer \notin ValidAnswers(questionSet.model,
                                        At(questionSet.difficulty, call.item)))
        => ~IsOk(call.result)

\* what the code does: the polytomous models raise on every answer outside
\* 1 .. #categories (the process stops where the build traps the overflow)
PolytomousInvalidAnswerRaises ==
    (/\ call.op \in {"likelihood_aug", "d1LL_aug", "d2LL_aug"}
     /\ ~IsBinary(questionSet)
     /\ call.answer \notin ValidAnswers(questionSet.model,
                                        At(questionSet.difficulty, call.item)))
        => ~IsOk(call.result)

---------------------------------------------------------------------------
(* Claims about the prior term of d1LL and d2LL (checked under Spec) *)

\* a single-state derivative call that returned a value
DerivativeReturned == call.op \in {"d1LL", "d2LL"} /\ IsOk(call.result)

\* what the prior term subtracts from the derivative of the call
PriorShiftOfCall(pr) ==
    IF call.op = "d1LL" THEN d1LL_prior_shift(call.theta, pr) ELSE d2LL_prior_shift(pr)

\* the derivative of the call recomputed with another flag and prior
DerivativeWith(use_prior, pr) ==
    IF call.op = "d1LL" THEN d1LL(questionSet, call.theta, use_prior, pr, call.ub)
    ELSE d2LL(questionSet, call.theta, use_prior, pr, call.ub)

\* C11 as stated: when applicable_rows is empty, d1LL and d2LL return the
\* value of the non-empty formula with zero item contributions: with a prior
\* requested d1LL returns -(theta - param0) / param1^2 and d2LL returns
\* -1 / param1^2.
C11_EmptyIsPriorTerm ==
    (DerivativeReturned /\ call.use_prior /\ questionSet.applicable_rows = <<>>) =>
        call.result.val = RNeg(PriorShiftOfCall(prior))

\* what the code does keep: on empty applicable_rows d2LL with a prior
\* requested returns -1 / param1^2
EmptyD2LLWithPrior ==
    (call.op = "d2LL" /\ call.use_prior /\ questionSet.applicable_rows = <<>>) =>
        call.result = Ok(RNeg(d2LL_prior_shift(prior)))

\* C12 as stated (single-state overloads): for every theta, prior and
\* QuestionSet state, empty applicable_rows included, d1LL with use_prior =
\* true equals d1LL with use_prior = false minus (theta - param0) / param1^2,
\* d2LL likewise with 1 / param1^2, and with use_prior = false the result
\* does not depend on the parameters of the prior.
C12_PriorTermSubtracted ==
    DerivativeReturned =>
        /\ call.use_prior =>
               call.result.val =
                   RSub(DerivativeWith(FALSE, prior).val, PriorShiftOfCall(prior))
        /\ ~call.use_prior =>
               \A pr \in Priors : call.result = DerivativeWith(FALSE, pr)

\* what the code does keep: the relation of C12 on non-empty applicable_rows
PriorTermSubtractedWhenNonEmpty ==
    (DerivativeReturned /\ questionSet.applicable_rows # <<>>) =>
        /\ call.use_prior =>
               call.result.val =
                   RSub(DerivativeWith(FALSE, prior).val, PriorShiftOfCall(prior))
        /\ ~call.use_prior =>
               \A pr \in Priors : call.result = DerivativeWith(FALSE, pr)

---------------------------------------------------------------------------
(* Claim about the partition of the item ids (checked under Spec) *)

\* the ids held by a row sequence
RowSet(rows) == {rows[k] : k \in 1 .. Len(rows)}

\* C13 as stated: starting from a QuestionSet in which applicable_rows and
\* nonapplicable_rows partition the item ids, after any sequence of
\* expectedPV, expectedObsInf, selectItem and likelihood / derivative /
\* information calls, each returning normally or ending with an error,
\* applicable_rows and nonapplicable_rows are disjoint and together cover
\* every item id whenever no operation is in progress.
C13_PartitionWhenIdle ==
    Idle =>
        /\ RowSet(questionSet.applicable_rows)
               \cap RowSet(questionSet.nonapplicable_rows) = {}
        /\ RowSet(questionSet.applicable_rows)
               \cup RowSet(questionSet.nonapplicable_rows) = Items

---------------------------------------------------------------------------
(* Claim about the frame of the (question, answer) operations (checked     *)
(* under SpecAug)                                                          *)

\* the operations that take the hypothetical answer as a pair
AugmentedOps ==
    {"likelihood_aug", "d1LL_aug", "d2LL_aug", "fisherTestInfo_aug",
     "expectedPV_variant", "expectedObsInf_variant"}

---------------------------------------------------------------------------
(* Claim about the value of expectedPV (checked under Spec) *)

\* the QuestionSet as it was before the call
PreCall ==
    [questionSet EXCEPT !.applicable_rows = call.pre.applicable_rows,
                        !.answers = call.pre.answers]

\* an expectedPV call for a candidate (an item not among the applicable
\* rows) that returned a value
ExpectedPVReturned ==
    /\ call.op = "expectedPV"
    /\ IsOk(call.result)
    /\ call.item \notin RowSet(call.pre.applicable_rows)

\* the answer categories of the item of the call, in ascending order
CategoriesOfCall ==
    SortedSeq(ValidAnswers(questionSet.model, At(questionSet.difficulty, call.item)))

\* the theta estimate before anything is committed
PreCommitTheta == estimateTheta(PreCall, prior, call.ub).val

\* the predicted probability mass of category c at the pre-commit estimate
MassOf(c) ==
    IF IsBinary(questionSet)
    THEN (IF c = 1 THEN prob_ltm(PreCall, PreCommitTheta, call.item).val
          ELSE RSub(One, prob_ltm(PreCall, PreCommitTheta, call.item).val))
    ELSE IF questionSet.model = "grm"
    THEN RSub(At(prob_grm(PreCall, PreCommitTheta, call.item).val, c),
              At(prob_grm(PreCall, PreCommitTheta, call.item).val, c - 1))
    ELSE At(prob_gpcm(PreCall, PreCommitTheta, call.item).val, c - 1)

\* the squared standard error with the hypothetical answer c committed
VarianceWith(c) ==
    estimateSE_pow2(SetAnswer(push_back(PreCall, call.item), call.item, c),
                    prior, call.ub).val

\* C19: for every candidate item, expectedPV returns the sum over the answer
\* categories c of the item of (predicted probability mass of c at the
\* pre-commit theta estimate) times (squared standard error with the
\* hypothetical answer c committed), each variance paired with the mass of
\* its own category; and the non-mutating variant of the model
\* (expectedPV_ltm_tpm, expectedPV_grm_gpcm) returns the same value.
C19_ExpectedVariance ==
    ExpectedPVReturned =>
        /\ call.result.val =
               RSum([k \in 1 .. Len(CategoriesOfCall) |->
                        RMul(MassOf(CategoriesOfCall[k]),
                             VarianceWith(CategoriesOfCall[k]))])
        /\ call.result = expectedPV_variant(PreCall, call.item, prior, call.ub).result

\* a grm candidate with three categories of different masses and variances
C19_Witness ==
    /\ ExpectedPVReturned
    /\ questionSet.model = "grm"
    /\ Len(CategoriesOfCall) = 3
    /\ call.pre.applicable_rows # <<>>
    /\ MassOf(1) # MassOf(2)
    /\ VarianceWith(1) # VarianceWith(2)
    /\ RLess(Zero, call.result.val)

---------------------------------------------------------------------------
(* Claim about the failure of prob_grm (checked under SpecProb) *)

\* a prob_grm call for a valid item id whose difficulty sequence is ordered
GrmCall ==
    /\ call.op = "probability"
    /\ questionSet.model = "grm"
    /\ InRange(questionSet.difficulty, call.item)
    /\ \A k \in 1 .. (Len(CallDifficulty) - 1) : CallDifficulty[k] <= CallDifficulty[k + 1]

\* the padded sequence [0, F_1, ..., F_k, 1] of the call
PaddedOfCall ==
    <<Zero>> \o [k \in 1 .. Len(CallDifficulty) |->
                    calculate(At(questionSet.discrimination, call.item), call.theta,
                              CallDifficulty[k])]
             \o <<One>>

\* C17: for every item whose difficulty sequence is ordered, prob_grm raises
\* a numeric-domain error exactly when two adjacent values of the padded
\* sequence [0, F_1, ..., F_k, 1] are equal; whenever it returns instead,
\* every difference of consecutive values of the returned sequence is
\* strictly positive and the differences sum to 1.
C17_GrmFailsOnTies ==
    GrmCall =>
        /\ (call.result.err = "domain_error") <=>
               (\E k \in 1 .. (Len(PaddedOfCall) - 1) : PaddedOfCall[k] = PaddedOfCall[k + 1])
        /\ IsOk(call.result) \/ call.result.err = "domain_error"
        /\ IsOk(call.result) =>
               /\ \A k \in 1 .. (Len(call.result.val) - 1) :
                      RLess(call.result.val[k], call.result.val[k + 1])
               /\ RSum([k \in 1 .. (Len(call.result.val) - 1) |->
                           RSub(call.result.val[k + 1], call.result.val[k])]) = One

\* a call that raised because both thresholds were clamped to the same value
C17_Witness ==
    /\ GrmCall
    /\ call.result.err = "domain_error"
    /\ Len(CallDifficulty) = 2
    /\ CallDifficulty[1] < CallDifficulty[2]
    /\ PaddedOfCall[2] = PaddedOfCall[3]

---------------------------------------------------------------------------
(* Claims about brentMethod (checked under SpecBrent) *)

BrentExited == brent.pc = "exited"

BrentReturned == BrentExited /\ brent.outcome = "returned"

\* C15 as stated: brentMethod always terminates after at least 1 and at
\* most 100 solver iterations, stopping at the first iteration at which the
\* interval test no longer reports 'continue', and at the cap it returns the
\* root estimate of the last iteration without raising an error.
C15_AlwaysWithinOneToCap ==
    /\ (brent.pc = "alloc") ~> BrentExited
    /\ [](BrentExited => (1 <= brent.iter /\ brent.iter <= max_iter))
    /\ [](BrentExited /\ brent.iter = max_iter /\ brent.status = "GSL_CONTINUE"
              => (brent.outcome = "returned" /\ brent.result = brent.root))

\* C15 amended: every call of brentMethod terminates.  A call that returns
\* has made at least 1 and at most 100 solver iterations, every iteration
\* before the last reported 'continue', the last one either did not or was
\* the 100th, and the value returned is the root estimate of the last
\* iteration, with no error raised at the cap.  A call in which the supplied
\* function raises ends with that error after 0 to 100 iterations (0 when
\* the function raises while the solver is initialised).
C15_TerminatesWithinCap ==
    /\ (brent.pc = "alloc") ~> BrentExited
    /\ [](brent.iter <= max_iter)
    /\ [](brent.pc = "iterate" /\ brent.iter >= 1
              => (brent.status = "GSL_CONTINUE" /\ brent.iter < max_iter))
    /\ [](brent.pc \in {"free", "return"} \/ BrentReturned
              => /\ 1 <= brent.iter
                 /\ brent.status # "GSL_CONTINUE" \/ brent.iter = max_iter
                 /\ brent.r = brent.root)
    /\ [](BrentReturned => brent.result = brent.root)

\* a call that returned at the cap with the test still reporting 'continue'
C15_Witness ==
    /\ BrentReturned
    /\ brent.iter = max_iter
    /\ brent.status = "GSL_CONTINUE"
    /\ brent.result = brent.root

\* C16: on every exit path of brentMethod, the one where the supplied
\* function raises a numeric-domain error while the solver is initialised or
\* iterated included, the solver handle allocated at the start of the call
\* has been released exactly once before control returns to the caller.
C16_ReleasedExactlyOnce ==
    BrentExited => (brent.handle = "released" /\ brent.releases = 1)

\* on the exits by return the handle has been released exactly once, and no
\* exit releases it twice
ReleasedOnReturn ==
    /\ BrentReturned => (brent.handle = "released" /\ brent.releases = 1)
    /\ brent.releases <= 1

---------------------------------------------------------------------------
(* Claim about callers that share a QuestionSet (checked under SpecShared) *)

\* the callers whose computation has run an evaluation
Evaluated == {t \in Threads : computations[t].seen # <<>>}

\* C18: when calls are serialized, every estimateSE / obsInf evaluation
\* inside an expectedPV or expectedObsInf computation for item q runs with
\* applicable_rows equal to the rows before the call followed by q alone,
\* and with answers[q] set by that computation.  (That interleaved
\* computations for different items reach an evaluation that runs with the
\* other computation's item in applicable_rows, or with its own item already
\* popped, is the reachability of C18_Witness.)
C18_SerializedEvaluations ==
    \A t \in Evaluated :
        computations[t].serialized =>
            /\ computations[t].seen.rows =
                   computations[t].pre \o <<computations[t].item>>
            /\ computations[t].seen.answer = computations[t].seen.wrote
            /\ computations[t].seen.wrote # NA_INTEGER

\* two interleaved computations for different items: one evaluated with the
\* other's hypothetical item among the rows, the other evaluated with its own
\* item already popped
C18_Witness ==
    \E t \in Evaluated, u \in Evaluated :
        /\ t # u
        /\ computations[t].item # computations[u].item
        /\ ~computations[t].serialized /\ ~computations[u].serialized
        /\ computations[u].item \in RowSet(computations[t].seen.rows)
        /\ computations[u].item \notin RowSet(computations[t].pre)
        /\ computations[u].item \notin RowSet(computations[u].seen.rows)

=============================================================================
